---- MODULE Spec2Model ----
(***************************************************************************)
(* Transaction normalisation, rule application and flag reconciliation of   *)
(* python-backend/transactions (models.py, utils.py, views.py).             *)
(*                                                                          *)
(* The store is the pair (txns, flags): txns is the Transaction table, a    *)
(* sequence indexed by primary key; flags is the TransactionFlag table, a   *)
(* bag of rows (a bag, so that two rows with the same content are two       *)
(* rows).  rules is the TransactionRule table in primary-key order.  clock  *)
(* counts the readings of timezone.now().  result records what the last     *)
(* call was given and what it returned or raised.  cache is the process's   *)
(* rule cache, utils._rules_cache.  pc is where the process's threads are   *)
(* inside a rule delete and inside get_cached_rules.                        *)
(***************************************************************************)
EXTENDS Integers, Sequences, FiniteSets, Bags, TLC

VARIABLES txns, flags, rules, clock, result, cache, pc

vars == <<txns, flags, rules, clock, result, cache, pc>>

(***************************************************************************)
(* Bounds of the model.                                                     *)
(***************************************************************************)
MaxTxns == 2
MaxBatch == 2
MaxRules == 1
MaxResolved == 1
GroupTxns == 3
ParseTxns == 1
RuleTxns == 1
RuleCount == 3
MaxClock == 2
UpdateTxns == 2
MoveTxns == 3
BulkTxns == 3
TickSeconds == 30
PageSize == 2
PagingTxns == 3
RefetchTxns == 3
RefetchBatch == 3

(***************************************************************************)
(* Python values.  NULL is None for the nullable columns amount, datetime   *)
(* and duplicates_transaction.  A value of a data dictionary is a string,   *)
(* an object (a Decimal or a datetime, held in v), None, or the key is      *)
(* missing from the dictionary.                                             *)
(***************************************************************************)
NULL == -1

Str(s) == [k |-> "str", s |-> s, v |-> NULL]
Obj(v) == [k |-> "obj", s |-> "", v |-> v]
PyNone == [k |-> "none", s |-> "", v |-> NULL]
Omit == [k |-> "omit", s |-> "", v |-> NULL]

\* dict.get(key, ''): the default '' stands in for a missing key
Get(x) == IF x.k = "omit" THEN Str("") ELSE x

\* bool(x) of a dictionary value
Truthy(x) == CASE x.k = "str" -> x.s # ""
               [] x.k = "obj" -> TRUE
               [] OTHER -> FALSE

(***************************************************************************)
(* String and number conversions of the Python runtime, on the strings the  *)
(* model feeds in.  Amounts are in cents.  Datetimes are day numbers; the   *)
(* n-th reading of the clock is NowBase + n.                                *)
(***************************************************************************)
\* str.strip()
Strip(s) == CASE s = " " -> ""
              [] s = " X" -> "X"
              [] OTHER -> s

\* str.lower()
Lower(s) == CASE s = "X" -> "x"
              [] s = "Y" -> "y"
              [] OTHER -> s

\* needle in hay, for strings of at most one character
Contains(hay, needle) == needle = "" \/ hay = needle

\* Decimal(s) succeeds
IsDecimal(s) == s \in {"10", "10.00", "20"}

\* Decimal(s)
DecimalOf(s) == CASE s = "10" -> 1000
                  [] s = "10.00" -> 1000
                  [] s = "20" -> 2000
                  [] OTHER -> NULL

\* str(d) of a Decimal read from a DecimalField(decimal_places=2)
StrOfDecimal(d) == CASE d = 1000 -> "10.00"
                     [] d = 2000 -> "20.00"
                     [] OTHER -> "?"

\* datetime.strptime(s, fmt) succeeds for one of the formats tried
IsDate(s) == s \in {"2023-01-01", "01/01/2023", "2023-01-02"}

\* the datetime it yields
DateOf(s) == CASE s = "2023-01-01" -> 1
               [] s = "01/01/2023" -> 1
               [] s = "2023-01-02" -> 2
               [] OTHER -> NULL

NowBase == 10

\* timezone.now() at clock reading c
Now(c) == NowBase + c

(***************************************************************************)
(* Flag messages.  A message is a text with at most one quoted input (s)    *)
(* and at most one transaction id (n) formatted into it.                    *)
(***************************************************************************)
Msg(k, s, n) == [k |-> k, s |-> s, n |-> n]
Text(m) == Msg(m, "", 0)

MissingAmountMsg == Text("Missing or invalid amount value")
AmountParseMsg(s) == Msg("Could not parse amount", s, 0)
DateParseMsg(s) == Msg("Could not parse date", s, 0)
MissingDescriptionMsg == Text("Missing or blank description")
MissingCategoryMsg == Text("Missing category")
DupMsg(id) == Msg("Possible duplicate of transaction", "", id)

\* a flag dictionary as the validation and parsing functions return it
FlagDict(type, msg) == [flag_type |-> type, message |-> msg]

(***************************************************************************)
(* utils.parse_amount: returns (amount or None, flag or None); the flag is  *)
(* given as a set with at most one element.                                 *)
(***************************************************************************)
parse_amount(amount_str) ==
    IF amount_str.k = "none" \/ (amount_str.k = "str" /\ Strip(amount_str.s) = "")
    THEN [value |-> NULL, flag |-> {FlagDict("PARSE_ERROR", MissingAmountMsg)}]
    ELSE IF amount_str.k = "str" /\ IsDecimal(amount_str.s)
    THEN [value |-> DecimalOf(amount_str.s), flag |-> {}]
    ELSE [value |-> NULL, flag |-> {FlagDict("PARSE_ERROR", AmountParseMsg(amount_str.s))}]

\* parse_datetime that falls back to the current time when no format matches
parse_datetime_or_now(date_str, now) ==
    IF IsDate(date_str)
    THEN [value |-> DateOf(date_str), flag |-> {}]
    ELSE [value |-> now, flag |-> {}]

(***************************************************************************)
(* utils.parse_datetime on a string, with the time timezone.now() returns.  *)
(***************************************************************************)
parse_datetime(date_str, now) ==
    IF Strip(date_str) = ""
    THEN [value |-> now, flag |-> {}]
    ELSE IF IsDate(date_str)
    THEN [value |-> DateOf(date_str), flag |-> {}]
    ELSE [value |-> NULL, flag |-> {FlagDict("PARSE_ERROR", DateParseMsg(date_str))}]

\* isinstance(amount_str, (int, float, Decimal)) => str(amount_str)
AmountArg(x) == IF x.k = "obj" THEN Str(StrOfDecimal(x.v)) ELSE x

\* str(date_str) if date_str else ''
DateArg(x) == IF Truthy(x) THEN x.s ELSE ""

\* parse_datetime reads the clock
ReadsClock(data) == Get(data.datetime).k # "obj" /\ Strip(DateArg(Get(data.datetime))) = ""

(***************************************************************************)
(* utils.clean_transaction_data                                             *)
(***************************************************************************)
clean_transaction_data(data, now) ==
    [description |-> Strip(Get(data.description).s),
     category |-> Strip(Get(data.category).s),
     amount |-> parse_amount(AmountArg(Get(data.amount))).value,
     datetime |-> IF Get(data.datetime).k = "obj"
                  THEN Get(data.datetime).v
                  ELSE parse_datetime(DateArg(Get(data.datetime)), now).value]

(***************************************************************************)
(* utils.transaction_validation_flags: the list of flag dictionaries for a  *)
(* stored transaction and the data it came from.  A data dictionary always  *)
(* has keys here, so "if original_data" holds.                              *)
(***************************************************************************)
SetToSeqOne(S) == IF S = {} THEN <<>> ELSE <<CHOOSE x \in S : TRUE>>

transaction_validation_flags(transaction, original_data, now) ==
    (IF transaction.description = ""
     THEN <<FlagDict("MISSING_DATA", MissingDescriptionMsg)>> ELSE <<>>)
    \o (IF transaction.category = ""
        THEN <<FlagDict("MISSING_DATA", MissingCategoryMsg)>> ELSE <<>>)
    \o SetToSeqOne(parse_amount(AmountArg(Get(original_data.amount))).flag)
    \o (IF Get(original_data.datetime).k = "obj"
        THEN <<>>
        ELSE SetToSeqOne(parse_datetime(DateArg(Get(original_data.datetime)), now).flag))

\* determine_flag_resolvability that calls every flag type resolvable
resolvable_always(flag_type) == TRUE

(***************************************************************************)
(* utils.determine_flag_resolvability                                       *)
(***************************************************************************)
determine_flag_resolvability(flag_type) ==
    flag_type \in {"RULE_MATCH", "DUPLICATE", "CUSTOM"}

(***************************************************************************)
(* The TransactionFlag table as a bag of rows.                              *)
(***************************************************************************)
Flag(t, d, type, msg, resolvable, resolved) ==
    [transaction |-> t, duplicates_transaction |-> d, flag_type |-> type,
     message |-> msg, is_resolvable |-> resolvable, is_resolved |-> resolved]

\* TransactionFlag.objects.filter(...): the rows of f, as a set
Rows(f) == DOMAIN f

\* number of rows of f among the row values S
CountRows(f, S) == BagCardinality([e \in (S \cap DOMAIN f) |-> f[e]])

\* INSERT of one row
InsertRow(f, e) == f (+) SetToBag({e})

\* queryset.delete() of every row with a value in S
DeleteRows(f, S) == [e \in (DOMAIN f \ S) |-> f[e]]

\* the rows that hold the natural key (transaction, flag_type, message)
KeyRows(f, t, type, msg) ==
    {e \in DOMAIN f : e.transaction = t /\ e.flag_type = type /\ e.message = msg}

\* get_or_create without the lookup: always INSERT
get_or_create_insert(f, t, type, msg, resolvable) ==
    InsertRow(f, Flag(t, NULL, type, msg, resolvable, FALSE))

\* TransactionFlag.objects.get_or_create(transaction, flag_type, message, defaults)
get_or_create(f, t, type, msg, resolvable) ==
    IF KeyRows(f, t, type, msg) # {}
    THEN f
    ELSE InsertRow(f, Flag(t, NULL, type, msg, resolvable, FALSE))

\* bulk_create(rows, ignore_conflicts=True): rows is a sequence; a row whose
\* natural key is already stored (or was inserted earlier in the list) is skipped
RECURSIVE bulk_create_ignore_conflicts(_, _)
bulk_create_ignore_conflicts(f, rows) ==
    IF rows = <<>> THEN f
    ELSE LET e == Head(rows)
         IN bulk_create_ignore_conflicts(
                IF KeyRows(f, e.transaction, e.flag_type, e.message) # {}
                THEN f ELSE InsertRow(f, e),
                Tail(rows))

Min(S) == CHOOSE x \in S : \A y \in S : x <= y

\* the elements of a set of ids in primary-key order
RECURSIVE InPkOrder(_)
InPkOrder(S) == IF S = {} THEN <<>> ELSE <<Min(S)>> \o InPkOrder(S \ {Min(S)})

(***************************************************************************)
(* models.check_duplicates (pre_save) and models.create_duplicate_flag      *)
(* (post_save) of Transaction.  db is [t, f, err]: the two tables and the   *)
(* exception that is propagating ("" when none); a step given a db with an  *)
(* exception does nothing, which is how the exception leaves the call.      *)
(***************************************************************************)
DB(t, f, err) == [t |-> t, f |-> f, err |-> err]

\* pre_save: delete the unresolved DUPLICATE flags of a transaction that has a pk
check_duplicates(f, pk) ==
    DeleteRows(f, {e \in DOMAIN f : e.transaction = pk /\ e.flag_type = "DUPLICATE"
                                      /\ ~e.is_resolved})

\* update_or_create that writes is_resolved False over the row e
updated_flag_unresolved(f, e, t, d) ==
    InsertRow(DeleteRows(f, {e}), Flag(t, d, "DUPLICATE", DupMsg(d), TRUE, FALSE))

\* the row update_or_create leaves when exactly the row e matches
updated_flag(f, e, t, d) ==
    InsertRow(DeleteRows(f, {e}), Flag(t, d, "DUPLICATE", DupMsg(d), TRUE, e.is_resolved))

\* update_or_create once the matching rows are known
update_or_create_rows(db, existing, t, d) ==
    IF CountRows(db.f, existing) > 1 THEN DB(db.t, db.f, "MultipleObjectsReturned")
    ELSE IF existing # {}
    THEN DB(db.t, updated_flag(db.f, CHOOSE x \in existing : TRUE, t, d), "")
    ELSE DB(db.t, InsertRow(db.f, Flag(t, d, "DUPLICATE", DupMsg(d), TRUE, FALSE)), "")

\* TransactionFlag.objects.update_or_create(transaction=t, flag_type='DUPLICATE',
\* defaults={duplicates_transaction: d, message, is_resolvable: True,
\* is_resolved: that of the first existing DUPLICATE flag of t, else False})
update_or_create(db, t, d) ==
    IF db.err # "" THEN db
    ELSE update_or_create_rows(
             db, {e \in DOMAIN db.f : e.transaction = t /\ e.flag_type = "DUPLICATE"}, t, d)

\* the loop "for duplicate in duplicates" of create_duplicate_flag
RECURSIVE flag_duplicates(_, _, _)
flag_duplicates(db, duplicates, pk) ==
    IF duplicates = <<>> \/ db.err # "" THEN db
    ELSE flag_duplicates(update_or_create(db, Head(duplicates), pk), Tail(duplicates), pk)

\* Transaction.objects.filter(description=, amount=).exclude(pk=)
SignalDuplicates(t, pk) ==
    {j \in DOMAIN t : j # pk /\ t[j].description = t[pk].description
                            /\ t[j].amount = t[pk].amount}

\* post_save once the duplicates are known
flag_both_ways(db, pk, created, duplicates) ==
    IF duplicates # {}
    THEN flag_duplicates(update_or_create(db, pk, Min(duplicates)), InPkOrder(duplicates), pk)
    ELSE IF ~created
    THEN DB(db.t,
            DeleteRows(db.f, {e \in DOMAIN db.f : e.duplicates_transaction = pk
                                                  /\ e.flag_type = "DUPLICATE"
                                                  /\ ~e.is_resolved}),
            "")
    ELSE db

\* post_save without "if instance.amount is None: return"
create_duplicate_flag_any_amount(db, pk, created) ==
    flag_both_ways(db, pk, created, SignalDuplicates(db.t, pk))

\* post_save
create_duplicate_flag(db, pk, created) ==
    IF db.t[pk].amount = NULL THEN db
    ELSE flag_both_ways(db, pk, created, SignalDuplicates(db.t, pk))

\* Transaction.save() of a new instance: INSERT, then post_save
save_new(db, row) ==
    create_duplicate_flag(DB(Append(db.t, row), db.f, ""), Len(db.t) + 1, TRUE)

\* Transaction.save() of a stored instance: pre_save, UPDATE, post_save
save(db, pk, row) ==
    create_duplicate_flag(DB([db.t EXCEPT ![pk] = row], check_duplicates(db.f, pk), ""),
                          pk, FALSE)

(***************************************************************************)
(* Rules.  A rule is [filter_condition, category, flag_message];            *)
(* filter_condition is a set of lookups [field, op, s, n] (s the string, n  *)
(* the number compared with), category and flag_message are "" when the     *)
(* rule has none.                                                           *)
(***************************************************************************)
Cond(field, op, s, n) == [field |-> field, op |-> op, s |-> s, n |-> n]

TxnFields == {"description", "category", "amount", "datetime"}
Lookups == {"exact", "icontains", "contains", "gt", "lt", "gte", "lte"}

\* the value of a text column named by a lookup
TextColumn(c, row) == IF c.field = "description" THEN row.description ELSE row.category

\* the value of a numeric column named by a lookup (NULL compares false in SQL)
NumColumn(c, row) == IF c.field = "amount" THEN row.amount ELSE row.datetime

\* one keyword of queryset.filter(**rule.filter_condition) on one row
Lookup(c, row) ==
    IF c.field \in {"description", "category"}
    THEN CASE c.op = "exact" -> TextColumn(c, row) = c.s
           [] c.op = "icontains" -> Contains(Lower(TextColumn(c, row)), Lower(c.s))
           [] c.op = "contains" -> Contains(TextColumn(c, row), c.s)
    ELSE NumColumn(c, row) # NULL
         /\ CASE c.op = "exact" -> NumColumn(c, row) = c.n
              [] c.op = "gt" -> NumColumn(c, row) > c.n
              [] c.op = "lt" -> NumColumn(c, row) < c.n
              [] c.op = "gte" -> NumColumn(c, row) >= c.n
              [] c.op = "lte" -> NumColumn(c, row) <= c.n

\* queryset.filter(**filter_condition) raises (FieldError: no such field or lookup)
FilterRaises(rule) ==
    \E c \in rule.filter_condition : c.field \notin TxnFields \/ c.op \notin Lookups

\* the rows of the queryset that the filter keeps
Matches(rule, row) == \A c \in rule.filter_condition : Lookup(c, row)

(***************************************************************************)
(* utils.apply_transaction_rule: the loop over the filtered transactions.   *)
(* filtered_queryset is lazy: count() is read once, before the loop, and    *)
(* each slice filtered_queryset[i:i+batch_size] is a query of its own, run  *)
(* when the batch is reached (rows in primary-key order).                   *)
(***************************************************************************)
\* "batch_size = 1000"
batch_size == 1000

\* "if rule.category and not transaction.category": set it and save
set_category(db, rule, pk) ==
    IF rule.category # "" /\ db.t[pk].category = ""
    THEN save(db, pk, [db.t[pk] EXCEPT !.category = rule.category])
    ELSE db

\* "if rule.flag_message": get_or_create of the RULE_MATCH flag
rule_match_flag(db, rule, pk) ==
    IF db.err # "" \/ rule.flag_message = "" THEN db
    ELSE DB(db.t, get_or_create(db.f, pk, "RULE_MATCH", Text(rule.flag_message), TRUE), "")

\* "for transaction in batch"
RECURSIVE apply_rule_actions(_, _, _)
apply_rule_actions(db, rule, pks) ==
    IF pks = <<>> \/ db.err # "" THEN db
    ELSE apply_rule_actions(rule_match_flag(set_category(db, rule, Head(pks)), rule, Head(pks)),
                            rule, Tail(pks))

\* queryset.filter(**rule.filter_condition), evaluated on the tables of db
filtered_queryset(db, rule, queryset) ==
    InPkOrder({pk \in queryset : Matches(rule, db.t[pk])})

\* rows[i:i+size]
Slice(rows, i, size) ==
    IF i >= Len(rows) THEN <<>>
    ELSE SubSeq(rows, i + 1, IF i + size < Len(rows) THEN i + size ELSE Len(rows))

\* "for i in range(0, filtered_queryset.count(), batch_size)" from i on
RECURSIVE apply_in_batches(_, _, _, _, _, _)
apply_in_batches(db, rule, queryset, size, i, count) ==
    IF i >= count \/ db.err # "" THEN db
    ELSE apply_in_batches(
             apply_rule_actions(db, rule, Slice(filtered_queryset(db, rule, queryset), i, size)),
             rule, queryset, size, i + size, count)

\* apply_transaction_rule with batches of size rows
apply_rule_in_batches(db, rule, queryset, size) ==
    IF FilterRaises(rule) THEN DB(db.t, db.f, "ValidationError")
    ELSE apply_in_batches(db, rule, queryset, size, 0,
                          Len(filtered_queryset(db, rule, queryset)))

apply_transaction_rule(db, rule, queryset) ==
    apply_rule_in_batches(db, rule, queryset, batch_size)

(***************************************************************************)
(* utils.apply_transaction_rules: every rule of rs in turn on the           *)
(* transactions with a primary key in queryset.                             *)
(***************************************************************************)
RECURSIVE apply_transaction_rules(_, _, _)
apply_transaction_rules(db, rs, queryset) ==
    IF rs = <<>> \/ db.err # "" THEN db
    ELSE apply_transaction_rules(apply_transaction_rule(db, Head(rs), queryset),
                                 Tail(rs), queryset)

(***************************************************************************)
(* utils.check_duplicates_bulk(transactions, preserve_resolution) on the    *)
(* tables t and f; checking_ids are the primary keys of the batch.  The     *)
(* result is [f, ret]: the flag table afterwards and the returned map as    *)
(* the list of its flags (each names its transaction).                      *)
(***************************************************************************)
Triple(row) == <<row.amount, row.description, row.datetime>>

RECURSIVE Concat(_)
Concat(ss) == IF ss = <<>> THEN <<>> ELSE Head(ss) \o Concat(Tail(ss))

\* drop the pairs already in checked_pairs
RECURSIVE Unchecked(_, _)
Unchecked(pairs, checked_pairs) ==
    IF pairs = <<>> THEN <<>>
    ELSE IF Head(pairs) \in checked_pairs
    THEN Unchecked(Tail(pairs), checked_pairs)
    ELSE <<Head(pairs)>> \o Unchecked(Tail(pairs), checked_pairs \cup {Head(pairs)})

\* the values the three __in filters of Step 2 are given
FilterValues(t, checking_data) ==
    [amounts |-> {t[i].amount : i \in checking_data},
     descriptions |-> {t[i].description : i \in checking_data},
     datetimes |-> {t[i].datetime : i \in checking_data}]

\* the transactions the filters keep (NULL is in no __in list)
Kept(t, values) ==
    {j \in DOMAIN t : /\ t[j].amount \in values.amounts
                      /\ t[j].description \in values.descriptions
                      /\ t[j].datetime # NULL
                      /\ t[j].datetime \in values.datetimes
                      /\ t[j].amount # NULL}

\* .values(...).annotate(count=Count('id')).filter(count__gt=1)
CountedTwice(t, kept) ==
    {k \in {Triple(t[j]) : j \in kept} : Cardinality({j \in kept : Triple(t[j]) = k}) > 1}

\* Step 2: the (amount, description, datetime) groups with count > 1 among
\* the transactions the three __in filters keep
DuplicateCriteria(t, checking_ids) ==
    CountedTwice(t, Kept(t, FilterValues(t, {i \in checking_ids : t[i].amount # NULL})))

\* Steps 3 and 4: the groups of more than one transaction, by their criteria
TransactionGroups(t, criteria) ==
    {g \in {{j \in DOMAIN t : Triple(t[j]) = k} : k \in criteria} : Cardinality(g) > 1}

\* Step 5 for one transaction of the batch: a pair with every other batch
\* transaction of the group, then with every transaction outside the batch
PairsFrom(txn1, checking_in_group, other_in_group) ==
    [i \in 1..(Len(checking_in_group) - 1 + Len(other_in_group)) |->
        <<txn1, (SelectSeq(checking_in_group, LAMBDA txn2 : txn2 # txn1)
                 \o other_in_group)[i]>>]

\* Step 5 for one group
GroupPairs(checking_in_group, other_in_group) ==
    Concat([i \in 1..Len(checking_in_group) |->
               PairsFrom(checking_in_group[i], checking_in_group, other_in_group)])

\* the groups in the order the loop meets them
GroupsInOrder(groups) ==
    [i \in 1..Cardinality(groups) |->
        CHOOSE g \in groups : Cardinality({h \in groups : Min(h) < Min(g)}) = i - 1]

\* Steps 3 to 5: the list duplicate_pairs
PairsOfGroups(groups, checking_ids) ==
    Unchecked(Concat([i \in 1..Len(groups) |->
                         GroupPairs(InPkOrder(groups[i] \cap checking_ids),
                                    InPkOrder(groups[i] \ checking_ids))]), {})

DuplicatePairs(t, checking_ids) ==
    PairsOfGroups(GroupsInOrder(TransactionGroups(t, DuplicateCriteria(t, checking_ids))),
                  checking_ids)

\* Step 6: the existing DUPLICATE flag of a pair is resolved
PairResolved(f, p) ==
    \E e \in DOMAIN f : /\ e.transaction = p[1]
                        /\ e.flag_type = "DUPLICATE"
                        /\ e.duplicates_transaction = p[2]
                        /\ e.is_resolved

\* Step 7 without the lookup in existing_flags: every flag unresolved
FlagsToCreateUnresolved(f, duplicate_pairs, preserve_resolution) ==
    [i \in 1..Len(duplicate_pairs) |->
        Flag(duplicate_pairs[i][1], duplicate_pairs[i][2], "DUPLICATE",
             DupMsg(duplicate_pairs[i][2]), TRUE, FALSE)]

\* Step 7: flags_to_create
FlagsToCreate(f, duplicate_pairs, preserve_resolution) ==
    [i \in 1..Len(duplicate_pairs) |->
        Flag(duplicate_pairs[i][1], duplicate_pairs[i][2], "DUPLICATE",
             DupMsg(duplicate_pairs[i][2]), TRUE,
             preserve_resolution /\ PairResolved(f, duplicate_pairs[i]))]

\* Step 8: bulk_create(flags_to_create, ignore_conflicts=True), and the map returned
write_duplicate_flags(f, flags_to_create) ==
    [f |-> bulk_create_ignore_conflicts(f, flags_to_create), ret |-> flags_to_create]

\* from "if not duplicate_pairs" on
flag_pairs(f, checking_ids, preserve_resolution, duplicate_pairs) ==
    IF duplicate_pairs = <<>> THEN [f |-> f, ret |-> <<>>]
    ELSE write_duplicate_flags(
             IF preserve_resolution THEN f
             ELSE DeleteRows(f, {e \in DOMAIN f : /\ e.transaction \in checking_ids
                                                  /\ e.flag_type = "DUPLICATE"}),
             FlagsToCreate(f, duplicate_pairs, preserve_resolution))

check_duplicates_bulk(t, f, checking_ids, preserve_resolution) ==
    IF checking_ids = {} \/ {i \in checking_ids : t[i].amount # NULL} = {}
    THEN [f |-> f, ret |-> <<>>]
    ELSE flag_pairs(f, checking_ids, preserve_resolution, DuplicatePairs(t, checking_ids))

(***************************************************************************)
(* utils.create_transaction_flags: get_or_create of every flag dictionary   *)
(***************************************************************************)
RECURSIVE create_transaction_flags(_, _, _)
create_transaction_flags(f, pk, flag_dicts) ==
    IF flag_dicts = <<>> THEN f
    ELSE create_transaction_flags(
             get_or_create(f, pk, Head(flag_dicts).flag_type, Head(flag_dicts).message,
                           determine_flag_resolvability(Head(flag_dicts).flag_type)),
             pk, Tail(flag_dicts))

\* a returned flag dictionary of transaction pk, in the shape of a flag row
Returned(pk, d) ==
    Flag(pk, NULL, d.flag_type, d.message, determine_flag_resolvability(d.flag_type), FALSE)

RECURSIVE SetToSeq(_)
SetToSeq(S) == IF S = {} THEN <<>>
               ELSE LET x == CHOOSE x \in S : TRUE IN <<x>> \o SetToSeq(S \ {x})

\* transaction.flags.filter(flag_type='RULE_MATCH') as returned dictionaries
RuleFlags(f, pk) ==
    SetToSeq({Flag(pk, NULL, e.flag_type, e.message, e.is_resolvable, FALSE) :
                 e \in {x \in DOMAIN f : x.transaction = pk /\ x.flag_type = "RULE_MATCH"}})

\* the empty-record rejection
IsEmptyRecord(cleaned_data) ==
    cleaned_data.amount = NULL /\ cleaned_data.description = "" /\ cleaned_data.category = ""

(***************************************************************************)
(* utils.create_transaction_with_flags(data), with the rules it reads and   *)
(* the time it reads; the outcome is [t, f, err, ret]: the tables as the    *)
(* call leaves them (every statement commits on its own), the exception     *)
(* raised and the flag list returned.                                       *)
(***************************************************************************)
Outcome(t, f, err, ret) == [t |-> t, f |-> f, err |-> err, ret |-> ret]

\* all_flags = validation_flags + rule_flags + duplicate_flags
all_flags(t, pk, validation_flags, rule_flags, dup) ==
    Outcome(t, dup.f, "",
            [i \in 1..Len(validation_flags) |-> Returned(pk, validation_flags[i])]
            \o rule_flags \o SelectSeq(dup.ret, LAMBDA e : e.transaction = pk))

\* the rule flags read back, and check_duplicates_bulk([transaction])
flags_after_validation(t, created, pk, validation_flags) ==
    all_flags(t, pk, validation_flags, RuleFlags(created, pk),
              check_duplicates_bulk(t, created, {pk}, TRUE))

\* create_transaction_flags(transaction, validation_flags)
flags_after_refresh(t, f, pk, validation_flags) ==
    flags_after_validation(t, create_transaction_flags(f, pk, validation_flags), pk,
                           validation_flags)

\* validation flags of the record as it was cleaned, before the rules ran
flags_before_rules(ruled, pk, original_data, now) ==
    IF ruled.err # "" THEN Outcome(ruled.t, ruled.f, ruled.err, <<>>)
    ELSE flags_after_refresh(ruled.t, ruled.f, pk,
                             transaction_validation_flags(
                                 clean_transaction_data(original_data, now), original_data, now))

\* transaction.refresh_from_db() and transaction_validation_flags(transaction, data)
flags_after_rules(ruled, pk, original_data, now) ==
    IF ruled.err # "" THEN Outcome(ruled.t, ruled.f, ruled.err, <<>>)
    ELSE flags_after_refresh(ruled.t, ruled.f, pk,
                             transaction_validation_flags(ruled.t[pk], original_data, now))

\* the part shared by create and update after transaction.save(): rules,
\* refresh, validation flags, rule flags, duplicate detection
derive_flags(saved, pk, rs, original_data, now) ==
    flags_after_rules(apply_transaction_rules(saved, rs, {pk}), pk, original_data, now)

\* create without the empty-record check
create_cleaned_unchecked(t, f, rs, data, now, cleaned_data) ==
    derive_flags(save_new(DB(t, f, ""), cleaned_data), Len(t) + 1, rs, data, now)

\* from the empty-record check on
create_cleaned(t, f, rs, data, now, cleaned_data) ==
    IF IsEmptyRecord(cleaned_data) THEN Outcome(t, f, "ValueError", <<>>)
    ELSE derive_flags(save_new(DB(t, f, ""), cleaned_data), Len(t) + 1, rs, data, now)

create_transaction_with_flags(t, f, rs, data, now) ==
    create_cleaned(t, f, rs, data, now, clean_transaction_data(data, now))

(***************************************************************************)
(* utils.merge_transaction_update: the stored values, overwritten by the    *)
(* keys the payload has; custom_flag is taken out of the payload.           *)
(***************************************************************************)
Nullable(v) == IF v = NULL THEN PyNone ELSE Obj(v)

merge_transaction_update(transaction, data) ==
    [description |-> IF data.description.k = "omit"
                     THEN Str(transaction.description) ELSE data.description,
     category |-> IF data.category.k = "omit"
                  THEN Str(transaction.category) ELSE data.category,
     amount |-> IF data.amount.k = "omit"
                THEN Nullable(transaction.amount) ELSE data.amount,
     datetime |-> IF data.datetime.k = "omit"
                  THEN Nullable(transaction.datetime) ELSE data.datetime]

\* clear_transaction_flags_bulk without the delete
clear_no_flags(f, pks, flag_types, only_unresolved) == f

(***************************************************************************)
(* utils.clear_transaction_flags_bulk                                       *)
(***************************************************************************)
clear_transaction_flags_bulk(f, pks, flag_types, only_unresolved) ==
    DeleteRows(f, {e \in DOMAIN f : /\ e.transaction \in pks
                                     /\ e.flag_type \in flag_types
                                     /\ (only_unresolved => ~e.is_resolved)})

(***************************************************************************)
(* utils.process_custom_flag: custom_flag is Omit or a dictionary           *)
(* [k |-> "dict", flag_type, message, is_resolvable]; flag_type is "" when  *)
(* the dictionary has no such key.                                          *)
(***************************************************************************)
CustomFlag(type, message, resolvable) ==
    [k |-> "dict", flag_type |-> type, message |-> message, is_resolvable |-> resolvable]

process_custom_flag(f, pk, custom_flag) ==
    IF custom_flag.k = "omit" THEN f
    ELSE IF custom_flag.message = "" THEN f
    ELSE get_or_create(f, pk,
                       IF custom_flag.flag_type = "" THEN "CUSTOM" ELSE custom_flag.flag_type,
                       Text(custom_flag.message), custom_flag.is_resolvable)

\* the dictionary process_custom_flag appends to all_flags when it created the flag
CustomReturned(f, pk, custom_flag) ==
    IF custom_flag.k = "omit" \/ custom_flag.message = "" THEN <<>>
    ELSE LET type == IF custom_flag.flag_type = "" THEN "CUSTOM" ELSE custom_flag.flag_type
         IN IF KeyRows(f, pk, type, Text(custom_flag.message)) # {} THEN <<>>
            ELSE <<Flag(pk, NULL, type, Text(custom_flag.message),
                        custom_flag.is_resolvable, FALSE)>>

(***************************************************************************)
(* utils.update_transaction_with_flags(transaction, data)                   *)
(***************************************************************************)
\* the two deletes before the save: the unresolved system flags of the
\* transaction, and the unresolved DUPLICATE flags that reference it
clear_for_update(cleared, pk) ==
    DeleteRows(cleared, {e \in DOMAIN cleared : /\ e.duplicates_transaction = pk
                                                /\ e.flag_type = "DUPLICATE"
                                                /\ ~e.is_resolved})

\* process_custom_flag(custom_flag, transaction, all_flags)
add_custom_flag(derived, pk, custom_flag) ==
    IF derived.err # "" THEN derived
    ELSE Outcome(derived.t, process_custom_flag(derived.f, pk, custom_flag), "",
                 derived.ret \o CustomReturned(derived.f, pk, custom_flag))

\* from clean_transaction_data(merged_data) on
update_merged(t, f, rs, pk, data, now, merged_data) ==
    add_custom_flag(
        derive_flags(
            save(DB(t,
                    clear_for_update(
                        clear_transaction_flags_bulk(
                            f, {pk}, {"PARSE_ERROR", "MISSING_DATA", "RULE_MATCH", "DUPLICATE"},
                            TRUE),
                        pk),
                    ""),
                 pk, clean_transaction_data(merged_data, now)),
            pk, rs, merged_data, now),
        pk, data.custom_flag)

update_transaction_with_flags(t, f, rs, pk, data, now) ==
    update_merged(t, f, rs, pk, data, now, merge_transaction_update(t[pk], data))

(***************************************************************************)
(* utils.create_clean_transactions and create_validation_flags_bulk, and    *)
(* utils.create_transactions_with_flags_bulk(data_list).  nows[i] is the    *)
(* time read while cleaning data_list[i].  order is the order in which      *)
(* Transaction.objects.filter(id__in=transaction_ids), a query without      *)
(* ORDER BY, returns the created rows in Step 3: the i-th row returned is   *)
(* the order[i]-th row created.                                             *)
(***************************************************************************)
\* the rows returned in the order of their primary keys
PkOrder(n) == [i \in 1..n |-> i]

\* refreshed_transactions = list(Transaction.objects.filter(id__in=transaction_ids))
refreshed_transactions(transaction_ids, order) ==
    [i \in 1..Len(transaction_ids) |-> transaction_ids[order[i]]]

\* the indexes of the records that pass the empty-record check
ValidIndexes(data_list, nows) ==
    SelectSeq([i \in 1..Len(data_list) |-> i],
              LAMBDA i : ~IsEmptyRecord(clean_transaction_data(data_list[i], nows[i])))

\* the rows create_validation_flags_bulk builds for the transactions pks[i],
\* each with the original data original_data_list[i] the id map gives it
ValidationRows(t, pks, original_data_list, nows) ==
    Concat([i \in 1..Len(pks) |->
               [j \in 1..Len(transaction_validation_flags(t[pks[i]], original_data_list[i],
                                                          nows[i])) |->
                   Returned(pks[i],
                            transaction_validation_flags(t[pks[i]], original_data_list[i],
                                                         nows[i])[j])]])

\* Step 8: the flag map returned
bulk_result(t, validation_rows, all_rule_flags, dup) ==
    Outcome(t, dup.f, "", validation_rows \o all_rule_flags \o dup.ret)

\* Steps 6 and 7: the rule flags read back, and check_duplicates_bulk
bulk_flagged(t, validated, transaction_ids, validation_rows) ==
    bulk_result(t, validation_rows,
                Concat([i \in 1..Len(transaction_ids) |-> RuleFlags(validated, transaction_ids[i])]),
                check_duplicates_bulk(t, validated,
                                      {transaction_ids[i] : i \in 1..Len(transaction_ids)}, TRUE))

\* Step 5: create_validation_flags_bulk writes the rows
bulk_validated(t, f, transaction_ids, validation_rows) ==
    bulk_flagged(t, bulk_create_ignore_conflicts(f, validation_rows), transaction_ids,
                 validation_rows)

\* Steps 3 to 5: refresh, the id map (the i-th refreshed transaction is
\* given original_data_list[i]), the validation rows
bulk_ruled(ruled, transaction_ids, original_data_list, nows, order) ==
    IF ruled.err # "" THEN Outcome(ruled.t, ruled.f, ruled.err, <<>>)
    ELSE bulk_validated(ruled.t, ruled.f, transaction_ids,
                        ValidationRows(ruled.t, refreshed_transactions(transaction_ids, order),
                                       original_data_list, nows))

\* Step 2: apply_transaction_rules on the created transactions
bulk_created(t, f, rs, transaction_ids, cleaned_data_list, original_data_list, nows, order) ==
    bulk_ruled(apply_transaction_rules(DB(t \o cleaned_data_list, f, ""), rs,
                                       {transaction_ids[i] : i \in 1..Len(transaction_ids)}),
               transaction_ids, original_data_list, nows, order)

\* Step 1: create_clean_transactions keeps the valid records and bulk_creates them
bulk_valid(t, f, rs, data_list, nows, valid, order) ==
    IF valid = <<>> THEN Outcome(t, f, "", <<>>)
    ELSE bulk_created(t, f, rs,
                      [i \in 1..Len(valid) |-> Len(t) + i],
                      [i \in 1..Len(valid) |->
                          clean_transaction_data(data_list[valid[i]], nows[valid[i]])],
                      [i \in 1..Len(valid) |-> data_list[valid[i]]],
                      [i \in 1..Len(valid) |-> nows[valid[i]]],
                      order)

\* create_transactions_with_flags_bulk when the store returns the rows in order
bulk_refreshed_in(t, f, rs, data_list, nows, order) ==
    bulk_valid(t, f, rs, data_list, nows, ValidIndexes(data_list, nows), order)

\* with the rows returned in primary-key order
create_transactions_with_flags_bulk(t, f, rs, data_list, nows) ==
    bulk_refreshed_in(t, f, rs, data_list, nows, PkOrder(Len(data_list)))

(***************************************************************************)
(* TransactionRuleViewSet.apply_to_all(pk): apply_transaction_rule(rule.id)  *)
(* on every stored transaction, then the unresolved PARSE_ERROR and          *)
(* MISSING_DATA flags of the transactions the rule's filter kept are         *)
(* cleared and create_validation_flags_bulk is run on them without original  *)
(* data.  An exception of the rule is answered with 400.                     *)
(***************************************************************************)
\* transaction_validation_flags(transaction) with original_data None: only
\* the description and the category are looked at
missing_data_flags(transaction) ==
    (IF transaction.description = ""
     THEN <<FlagDict("MISSING_DATA", MissingDescriptionMsg)>> ELSE <<>>)
    \o (IF transaction.category = ""
        THEN <<FlagDict("MISSING_DATA", MissingCategoryMsg)>> ELSE <<>>)

\* create_validation_flags_bulk(filtered_queryset): the rows it builds
MissingDataRows(t, pks) ==
    Concat([i \in 1..Len(pks) |->
               [j \in 1..Len(missing_data_flags(t[pks[i]])) |->
                   Returned(pks[i], missing_data_flags(t[pks[i]])[j])]])

\* the clearing and the validation after the rule, on the transactions tids
revalidate(ruled, tids) ==
    IF ruled.err # "" THEN Outcome(ruled.t, ruled.f, ruled.err, <<>>)
    ELSE Outcome(ruled.t,
                 bulk_create_ignore_conflicts(
                     clear_transaction_flags_bulk(ruled.f, tids,
                                                  {"PARSE_ERROR", "MISSING_DATA"}, TRUE),
                     MissingDataRows(ruled.t, InPkOrder(tids))),
                 "", <<>>)

apply_to_all(t, f, rule) ==
    revalidate(apply_transaction_rule(DB(t, f, ""), rule, DOMAIN t),
               IF FilterRaises(rule) THEN {} ELSE {pk \in DOMAIN t : Matches(rule, t[pk])})

(***************************************************************************)
(* TransactionRuleViewSet.apply_all_rules: apply_transaction_rules() on      *)
(* every stored transaction with the rules the cache gives; no flag is       *)
(* cleared or validated afterwards.  An exception is answered with 500.      *)
(***************************************************************************)
apply_all_rules(t, f, rs) ==
    apply_transaction_rules(DB(t, f, ""), rs, DOMAIN t)

(***************************************************************************)
(* The rule cache: utils._rules_cache, invalidate_rules_cache and            *)
(* get_cached_rules.  cache is [loaded, rules, age]: loaded is false when    *)
(* _rules_cache['rules'] is None; age is time.time() - last_updated, in      *)
(* seconds (0 when nothing is loaded).                                       *)
(***************************************************************************)
\* the default of get_cached_rules(max_age_seconds=60)
max_age_seconds == 60

NoCache == [loaded |-> FALSE, rules |-> <<>>, age |-> 0]

\* utils.invalidate_rules_cache
invalidate_rules_cache == NoCache

\* models.invalidate_rule_cache_on_save (post_save of TransactionRule)
invalidate_rule_cache_on_save == invalidate_rules_cache

\* a pre_delete receiver that leaves the cache alone
keep_rules_cache == cache

\* models.invalidate_rule_cache_on_delete (pre_delete of TransactionRule)
invalidate_rule_cache_on_delete == invalidate_rules_cache

\* utils.get_cached_rules: "if rules is None or last_updated is None or
\* current_time - last_updated > max_age_seconds"
reloads == ~cache.loaded \/ cache.age > max_age_seconds

\* utils.get_cached_rules: the list it returns
get_cached_rules == IF reloads THEN rules ELSE cache.rules

\* utils.get_cached_rules: the cache it leaves (last_updated is set to the
\* current time only when the rules are fetched)
cache_after_get == IF reloads THEN [loaded |-> TRUE, rules |-> rules, age |-> 0] ELSE cache

\* create_transaction_with_flags reaches apply_transaction_rules
create_reads_rules(t, f, cleaned_data) ==
    ~IsEmptyRecord(cleaned_data) /\ save_new(DB(t, f, ""), cleaned_data).err = ""

\* update_transaction_with_flags reaches apply_transaction_rules
update_reads_rules(t, f, pk, cleaned_data) ==
    save(DB(t,
            clear_for_update(
                clear_transaction_flags_bulk(
                    f, {pk}, {"PARSE_ERROR", "MISSING_DATA", "RULE_MATCH", "DUPLICATE"}, TRUE),
                pk),
            ""),
         pk, cleaned_data).err = ""

(***************************************************************************)
(* The calls.  result is [op, err, pks, ret]: the last call, the exception  *)
(* it raised ("" when it returned), the primary keys it was about and the   *)
(* flags it returned.                                                       *)
(***************************************************************************)
Result(op, err, pks, ret) == [op |-> op, err |-> err, pks |-> pks, ret |-> ret]

\* no thread is inside a rule delete or inside get_cached_rules: deleting is
\* the position in rules of the rule whose pre_delete receiver has run (0
\* when none), reading is the position of the thread in get_cached_rules,
\* fetched the list it has read from the store
NoThreads == [deleting |-> 0, reading |-> "idle", fetched |-> <<>>]

Init ==
    /\ txns = <<>>
    /\ flags = EmptyBag
    /\ rules = <<>>
    /\ clock = 0
    /\ result = Result("init", "", {}, <<>>)
    /\ cache = NoCache
    /\ pc = NoThreads

\* what a call leaves behind
Commit(op, out, pks) ==
    /\ txns' = out.t
    /\ flags' = out.f
    /\ result' = Result(op, out.err, pks, out.ret)

\* TransactionViewSet.create
Create(data) ==
    /\ Commit("create",
              create_transaction_with_flags(txns, flags, get_cached_rules, data,
                                            Now(clock + 1)),
              (DOMAIN txns') \ (DOMAIN txns))
    /\ clock' = IF ReadsClock(data) THEN clock + 1 ELSE clock
    /\ cache' = IF create_reads_rules(txns, flags, clean_transaction_data(data, Now(clock + 1)))
                THEN cache_after_get ELSE cache
    /\ UNCHANGED rules
    /\ UNCHANGED pc

\* TransactionViewSet.update and partial_update
Update(pk, data) ==
    /\ pk \in DOMAIN txns
    /\ Commit("update",
              update_transaction_with_flags(txns, flags, get_cached_rules, pk, data,
                                            Now(clock + 1)),
              {pk})
    /\ clock' = IF ReadsClock(merge_transaction_update(txns[pk], data))
                THEN clock + 1 ELSE clock
    /\ cache' = IF update_reads_rules(
                       txns, flags, pk,
                       clean_transaction_data(merge_transaction_update(txns[pk], data),
                                              Now(clock + 1)))
                THEN cache_after_get ELSE cache
    /\ UNCHANGED rules
    /\ UNCHANGED pc

\* the number of clock readings among the first i records
Readings(data_list, i) == Cardinality({j \in 1..i : ReadsClock(data_list[j])})

\* TransactionViewSet.upload, from the preloading of the rule cache on
BulkCreate(data_list) ==
    /\ data_list # <<>>
    /\ Commit("bulk",
              create_transactions_with_flags_bulk(
                  txns, flags, get_cached_rules, data_list,
                  [i \in 1..Len(data_list) |-> Now(clock + Readings(data_list, i))]),
              (DOMAIN txns') \ (DOMAIN txns))
    /\ clock' = clock + Readings(data_list, Len(data_list))
    /\ cache' = cache_after_get
    /\ UNCHANGED rules
    /\ UNCHANGED pc

\* the rows TransactionViewSet.upload reports as skipped: amount, description
\* and category are all blank once stripped
skipped_rows(rows) ==
    SelectSeq(rows, LAMBDA row : /\ Strip(Get(row.amount).s) = ""
                                 /\ Strip(Get(row.description).s) = ""
                                 /\ Strip(Get(row.category).s) = "")

\* the status of the upload's response
status_code(created_count, skipped_count) ==
    IF created_count > 0
    THEN (IF skipped_count > 0 THEN 207 ELSE 201)
    ELSE 400

\* the body and status of the upload's response
upload_response(rows, created_count) ==
    [created_count |-> created_count,
     skipped_count |-> Len(skipped_rows(rows)),
     status |-> status_code(created_count, Len(skipped_rows(rows)))]

\* what the upload answers: the response, or nothing but the error (400)
\* when the bulk creation raised
upload_answer(out, rows, created) ==
    Result("upload", out.err, created,
           IF out.err = "" THEN <<upload_response(rows, Cardinality(created))>> ELSE <<>>)

\* TransactionViewSet.upload of a CSV file with the rows data_list, with its
\* response in result.ret
Upload(data_list) ==
    /\ data_list # <<>>
    /\ txns' = create_transactions_with_flags_bulk(
                   txns, flags, get_cached_rules, data_list,
                   [i \in 1..Len(data_list) |-> Now(clock + Readings(data_list, i))]).t
    /\ flags' = create_transactions_with_flags_bulk(
                    txns, flags, get_cached_rules, data_list,
                    [i \in 1..Len(data_list) |-> Now(clock + Readings(data_list, i))]).f
    /\ result' = upload_answer(
                     create_transactions_with_flags_bulk(
                         txns, flags, get_cached_rules, data_list,
                         [i \in 1..Len(data_list) |-> Now(clock + Readings(data_list, i))]),
                     data_list, (DOMAIN txns') \ (DOMAIN txns))
    /\ clock' = clock + Readings(data_list, Len(data_list))
    /\ cache' = cache_after_get
    /\ UNCHANGED rules
    /\ UNCHANGED pc

\* the permutations of the first m of n positions
Orders(n, m) ==
    {order \in [1..n -> 1..n] :
        /\ \A i, j \in 1..n : order[i] = order[j] => i = j
        /\ \A i \in 1..n : i > m => order[i] = i}

\* the orders in which the store may return the rows an upload creates
RefreshOrders(data_list) ==
    Orders(Len(data_list),
           Len(ValidIndexes(data_list, [i \in 1..Len(data_list) |-> Now(clock)])))

\* TransactionViewSet.upload when the re-fetch of Step 3 returns the created
\* rows in the given order
BulkCreateRefreshed(data_list, order) ==
    /\ data_list # <<>>
    /\ order \in RefreshOrders(data_list)
    /\ Commit("bulk",
              bulk_refreshed_in(
                  txns, flags, get_cached_rules, data_list,
                  [i \in 1..Len(data_list) |-> Now(clock + Readings(data_list, i))], order),
              (DOMAIN txns') \ (DOMAIN txns))
    /\ clock' = clock + Readings(data_list, Len(data_list))
    /\ cache' = cache_after_get
    /\ UNCHANGED rules
    /\ UNCHANGED pc

\* what check_duplicates_bulk leaves behind
CommitFlags(out, batch) ==
    /\ flags' = out.f
    /\ result' = Result("check", "", batch, out.ret)

\* a call of utils.check_duplicates_bulk on stored transactions
CheckDuplicates(batch, preserve_resolution) ==
    /\ batch # {}
    /\ batch \subseteq DOMAIN txns
    /\ CommitFlags(check_duplicates_bulk(txns, flags, batch, preserve_resolution), batch)
    /\ UNCHANGED <<txns, rules, clock, cache>>
    /\ UNCHANGED pc

\* TransactionViewSet.resolve_flag on a flag of the transaction
ResolveFlag(flag) ==
    /\ flag \in DOMAIN flags
    /\ IF flag.is_resolvable
       THEN /\ flags' = InsertRow(flags (-) SetToBag({flag}), [flag EXCEPT !.is_resolved = TRUE])
            /\ result' = Result("resolve", "", {flag.transaction}, <<>>)
       ELSE /\ flags' = flags
            /\ result' = Result("resolve", "400", {flag.transaction}, <<>>)
    /\ UNCHANGED <<txns, rules, clock, cache>>
    /\ UNCHANGED pc

\* resolve_flag without "if not flag.is_resolvable"
resolve_flag_unchecked(pk, flag) ==
    /\ pk \in DOMAIN txns
    /\ flag \in DOMAIN flags
    /\ IF flag.transaction # pk
       THEN /\ flags' = flags
            /\ result' = Result("resolve", "404", {pk}, <<>>)
       ELSE /\ flags' = InsertRow(flags (-) SetToBag({flag}), [flag EXCEPT !.is_resolved = TRUE])
            /\ result' = Result("resolve", "", {pk}, <<>>)
    /\ UNCHANGED <<txns, rules, clock, cache>>
    /\ UNCHANGED pc

\* resolve_flag with flag.delete() in place of is_resolved = True and flag.save()
resolve_flag_delete(pk, flag) ==
    /\ pk \in DOMAIN txns
    /\ flag \in DOMAIN flags
    /\ IF flag.transaction # pk
       THEN /\ flags' = flags
            /\ result' = Result("resolve", "404", {pk}, <<>>)
       ELSE IF ~flag.is_resolvable
       THEN /\ flags' = flags
            /\ result' = Result("resolve", "400", {pk}, <<>>)
       ELSE /\ flags' = flags (-) SetToBag({flag})
            /\ result' = Result("resolve", "", {pk}, <<>>)
    /\ UNCHANGED <<txns, rules, clock, cache>>
    /\ UNCHANGED pc

\* TransactionViewSet.resolve_flag(pk, flag_id): the flag is looked up among
\* the flags of the addressed transaction (transaction.flags.get), so a flag
\* of another transaction is not found
resolve_flag(pk, flag) ==
    /\ pk \in DOMAIN txns
    /\ flag \in DOMAIN flags
    /\ IF flag.transaction # pk
       THEN /\ flags' = flags
            /\ result' = Result("resolve", "404", {pk}, <<>>)
       ELSE IF ~flag.is_resolvable
       THEN /\ flags' = flags
            /\ result' = Result("resolve", "400", {pk}, <<>>)
       ELSE /\ flags' = InsertRow(flags (-) SetToBag({flag}), [flag EXCEPT !.is_resolved = TRUE])
            /\ result' = Result("resolve", "", {pk}, <<>>)
    /\ UNCHANGED <<txns, rules, clock, cache>>
    /\ UNCHANGED pc

\* TransactionRuleViewSet.create of a rule the serializer accepts
\* (TransactionRuleSerializer.validate)
RuleCreate(rule) ==
    /\ rule.filter_condition # {}
    /\ rule.category # "" \/ rule.flag_message # ""
    /\ rules' = Append(rules, rule)
    /\ cache' = invalidate_rule_cache_on_save
    /\ result' = Result("rule", "", {}, <<>>)
    /\ UNCHANGED <<txns, flags, clock>>
    /\ UNCHANGED pc

\* TransactionRuleViewSet.update of the i-th rule to a rule the serializer accepts
RuleUpdate(i, rule) ==
    /\ i \in DOMAIN rules
    /\ rule.filter_condition # {}
    /\ rule.category # "" \/ rule.flag_message # ""
    /\ rules' = [rules EXCEPT ![i] = rule]
    /\ cache' = invalidate_rule_cache_on_save
    /\ result' = Result("rule", "", {}, <<>>)
    /\ UNCHANGED <<txns, flags, clock>>
    /\ UNCHANGED pc

\* TransactionRuleViewSet.destroy of the i-th rule: pre_delete, then DELETE
RuleDelete(i) ==
    /\ i \in DOMAIN rules
    /\ rules' = SubSeq(rules, 1, i - 1) \o SubSeq(rules, i + 1, Len(rules))
    /\ cache' = invalidate_rule_cache_on_delete
    /\ result' = Result("rule", "", {}, <<>>)
    /\ UNCHANGED <<txns, flags, clock>>
    /\ UNCHANGED pc

\* TransactionRuleViewSet.apply_to_all on the i-th rule
ApplyToAll(i) ==
    /\ i \in DOMAIN rules
    /\ Commit("apply_to_all", apply_to_all(txns, flags, rules[i]), DOMAIN txns)
    /\ UNCHANGED <<rules, clock, cache>>
    /\ UNCHANGED pc

\* TransactionRuleViewSet.apply_all_rules
ApplyAllRules ==
    /\ txns' = apply_all_rules(txns, flags, get_cached_rules).t
    /\ flags' = apply_all_rules(txns, flags, get_cached_rules).f
    /\ result' = Result("apply_all_rules", apply_all_rules(txns, flags, get_cached_rules).err,
                        DOMAIN txns, <<>>)
    /\ cache' = cache_after_get
    /\ UNCHANGED <<rules, clock>>
    /\ UNCHANGED pc

\* a call of utils.apply_transaction_rule(rule.id) on every stored transaction
\* that pages through the matches size rows at a time
ApplyRule(i, size) ==
    /\ i \in DOMAIN rules
    /\ txns' = apply_rule_in_batches(DB(txns, flags, ""), rules[i], DOMAIN txns, size).t
    /\ flags' = apply_rule_in_batches(DB(txns, flags, ""), rules[i], DOMAIN txns, size).f
    /\ result' = Result("apply_rule",
                        apply_rule_in_batches(DB(txns, flags, ""), rules[i], DOMAIN txns, size).err,
                        DOMAIN txns, <<>>)
    /\ UNCHANGED <<rules, clock, cache>>
    /\ UNCHANGED pc

\* a call of utils.get_cached_rules; result.ret is the list returned
GetCachedRules ==
    /\ cache' = cache_after_get
    /\ result' = Result("rules", "", {}, get_cached_rules)
    /\ UNCHANGED <<txns, flags, rules, clock>>
    /\ UNCHANGED pc

\* TickSeconds pass between two calls (the age is not followed further once
\* it is beyond max_age_seconds)
Tick ==
    /\ cache.loaded
    /\ cache.age <= max_age_seconds
    /\ cache' = [cache EXCEPT !.age = cache.age + TickSeconds]
    /\ result' = Result("wait", "", {}, <<>>)
    /\ UNCHANGED <<txns, flags, rules, clock>>
    /\ UNCHANGED pc

(***************************************************************************)
(* A rule delete and get_cached_rules in two threads of one process.  The   *)
(* delete runs the pre_delete receiver and then the DELETE statement;       *)
(* get_cached_rules tests the cache, reads the rules from the store and     *)
(* writes them to the cache, without a lock.                                *)
(***************************************************************************)
\* instance.delete(): pre_delete is sent, invalidate_rule_cache_on_delete runs
DeleteSignal(i) ==
    /\ pc.deleting = 0
    /\ i \in DOMAIN rules
    /\ cache' = invalidate_rule_cache_on_delete
    /\ pc' = [pc EXCEPT !.deleting = i]
    /\ result' = Result("pre_delete", "", {}, <<>>)
    /\ UNCHANGED <<txns, flags, rules, clock>>

\* instance.delete(): the DELETE statement
DeleteRow ==
    /\ pc.deleting # 0
    /\ rules' = SubSeq(rules, 1, pc.deleting - 1) \o SubSeq(rules, pc.deleting + 1, Len(rules))
    /\ pc' = [pc EXCEPT !.deleting = 0]
    /\ result' = Result("rule", "", {}, <<>>)
    /\ UNCHANGED <<txns, flags, clock, cache>>

\* get_cached_rules: the test "rules is None or ... > max_age_seconds"; the
\* cached list is returned when the test fails
GetTest ==
    /\ pc.reading = "idle"
    /\ pc' = [pc EXCEPT !.reading = IF reloads THEN "reload" ELSE "idle"]
    /\ result' = IF reloads THEN Result("test", "", {}, <<>>)
                  ELSE Result("rules", "", {}, cache.rules)
    /\ UNCHANGED <<txns, flags, rules, clock, cache>>

\* get_cached_rules: list(TransactionRule.objects.all())
GetFetch ==
    /\ pc.reading = "reload"
    /\ pc' = [pc EXCEPT !.reading = "fetched", !.fetched = rules]
    /\ result' = Result("fetch", "", {}, <<>>)
    /\ UNCHANGED <<txns, flags, rules, clock, cache>>

\* get_cached_rules: the list and last_updated are written, the list returned
GetStore ==
    /\ pc.reading = "fetched"
    /\ cache' = [loaded |-> TRUE, rules |-> pc.fetched, age |-> 0]
    /\ pc' = [pc EXCEPT !.reading = "idle", !.fetched = <<>>]
    /\ result' = Result("rules", "", {}, pc.fetched)
    /\ UNCHANGED <<txns, flags, rules, clock>>

(***************************************************************************)
(* What the callers send.                                                   *)
(***************************************************************************)
Data(d, c, a, dt) == [description |-> d, category |-> c, amount |-> a, datetime |-> dt]

\* the body of a POST, or one row of a CSV file: every value is a string
Record(d, c, a, dt) == Data(Str(d), Str(c), Str(a), Str(dt))

\* the body of a PUT or PATCH: the keys it has, and custom_flag
Payload(d, c, a, dt, cf) ==
    [description |-> d, category |-> c, amount |-> a, datetime |-> dt, custom_flag |-> cf]

NoPayload == Payload(Omit, Omit, Omit, Omit, Omit)

\* the string the serializer shows for a stored datetime, when the model has one
IsoOf(dt) == CASE dt = 1 -> Str("2023-01-01")
               [] dt = 2 -> Str("2023-01-02")
               [] OTHER -> Omit

\* the payload that repeats the values the API shows for a transaction
Echo(row) ==
    Payload(Str(row.description), Str(row.category),
            IF row.amount = NULL THEN Omit ELSE Str(StrOfDecimal(row.amount)),
            IsoOf(row.datetime), Omit)

RECURSIVE SeqsUpTo(_, _)
SeqsUpTo(S, n) == IF n = 0 THEN {<<>>}
                  ELSE LET shorter == SeqsUpTo(S, n - 1)
                       IN shorter \cup {Append(q, x) : q \in shorter, x \in S}

NumResolved == Cardinality({e \in DOMAIN flags : e.is_resolved})

(***************************************************************************)
(* Spec: up to MaxTxns transactions with one description, with and without  *)
(* an amount, on two dates; a rule that matches them and a rule whose       *)
(* filter names no field of a transaction; custom flags.                    *)
(***************************************************************************)
Records ==
    {Record("X", "c0", "10", "2023-01-01"),
     Record("X", "c0", "10.00", "2023-01-02"),
     Record("X", "", "abc", "2023-01-01")}

Payloads ==
    {NoPayload,
     Payload(Omit, Omit, Omit, Omit, CustomFlag("CUSTOM", "note", TRUE)),
     Payload(Omit, Omit, Omit, Omit, CustomFlag("DUPLICATE", "note", TRUE))}

Rule(filter_condition, category, flag_message) ==
    [filter_condition |-> filter_condition, category |-> category,
     flag_message |-> flag_message]

MatchingRule == Rule({Cond("description", "icontains", "x", 0)}, "c1", "m")
SecondRule == Rule({Cond("amount", "gte", "", 1000)}, "c2", "")
NoFieldRule == Rule({Cond("nosuchfield", "exact", "x", 0)}, "c1", "")

RuleChoices == {MatchingRule, NoFieldRule}

Next ==
    \/ \E data \in Records : Len(txns) < MaxTxns /\ Create(data)
    \/ \E pk \in DOMAIN txns : \E data \in Payloads \cup {Echo(txns[pk])} : Update(pk, data)
    \/ \E data_list \in SeqsUpTo(Records, MaxBatch) :
          Len(txns) + Len(data_list) <= MaxTxns /\ BulkCreate(data_list)
    \/ \E batch \in SUBSET DOMAIN txns : \E p \in BOOLEAN : CheckDuplicates(batch, p)
    \/ \E flag \in DOMAIN flags : NumResolved < MaxResolved /\ ResolveFlag(flag)
    \/ \E rule \in RuleChoices : Len(rules) < MaxRules /\ RuleCreate(rule)

Spec == Init /\ [][Next]_vars

(***************************************************************************)
(* SpecGroup: up to GroupTxns transactions with one description and one     *)
(* amount and no category, on two dates; the rule that gives them a         *)
(* category.                                                                *)
(***************************************************************************)
GroupRecords ==
    {Record("X", "", "10", "2023-01-01"),
     Record("X", "", "10.00", "2023-01-02")}

NextGroup ==
    \/ \E data \in GroupRecords : Len(txns) < GroupTxns /\ Create(data)
    \/ \E pk \in DOMAIN txns : \E data \in {NoPayload, Echo(txns[pk])} : Update(pk, data)
    \/ \E data_list \in SeqsUpTo(GroupRecords, GroupTxns) :
          Len(txns) + Len(data_list) <= GroupTxns /\ BulkCreate(data_list)
    \/ \E flag \in DOMAIN flags : NumResolved < MaxResolved /\ ResolveFlag(flag)
    \/ Len(rules) < MaxRules /\ RuleCreate(MatchingRule)

SpecGroup == Init /\ [][NextGroup]_vars

(***************************************************************************)
(* SpecParse: records of every shape (blank, padded, unparseable and valid  *)
(* values), created and updated one at a time, with and without rules.      *)
(***************************************************************************)
ParseRecords ==
    {Record(d, c, a, dt) : d \in {"", " ", "X"}, c \in {"", "c0"},
                           a \in {"", "abc", "10"},
                           dt \in {"", "2023-01-01", "garbage"}}

NextParse ==
    \/ \E data \in ParseRecords :
          Create(data) /\ Len(txns') <= ParseTxns /\ clock' <= MaxClock
    \/ \E pk \in DOMAIN txns : \E data \in {NoPayload, Echo(txns[pk])} :
          Update(pk, data) /\ clock' <= MaxClock
    \/ \E rule \in RuleChoices : Len(rules) < MaxRules /\ RuleCreate(rule)

SpecParse == Init /\ [][NextParse]_vars

(***************************************************************************)
(* SpecRules: up to RuleCount rules in every order, applied to new and      *)
(* updated transactions with and without a category.                        *)
(***************************************************************************)
RuleRecords ==
    {Record("X", "", "10", "2023-01-01"),
     Record("X", "c0", "10", "2023-01-01")}

NextRules ==
    \/ \E data \in RuleRecords : Len(txns) < RuleTxns /\ Create(data)
    \/ \E pk \in DOMAIN txns : Update(pk, NoPayload)
    \/ \E data_list \in SeqsUpTo(RuleRecords, RuleTxns) :
          Len(txns) + Len(data_list) <= RuleTxns /\ BulkCreate(data_list)
    \/ \E rule \in {MatchingRule, SecondRule, NoFieldRule} :
          Len(rules) < RuleCount /\ RuleCreate(rule)

SpecRules == Init /\ [][NextRules]_vars

(***************************************************************************)
(* SpecUpdate: up to UpdateTxns transactions with one description and one   *)
(* date, with an amount that parses or not, and updates that change         *)
(* nothing, that replace description, category and amount, or that only     *)
(* add a custom flag; the rule that matches the first description only.     *)
(***************************************************************************)
UpdateRecords ==
    {Record("X", "", "10", "2023-01-01"),
     Record("X", "", "abc", "2023-01-01")}

UpdatePayloads ==
    {NoPayload,
     Payload(Str("Y"), Str("c0"), Str("20"), Omit, Omit),
     Payload(Omit, Omit, Omit, Omit, CustomFlag("", "note", TRUE))}

NextUpdate ==
    \/ \E data \in UpdateRecords : Len(txns) < UpdateTxns /\ Create(data)
    \/ \E pk \in DOMAIN txns : \E data \in UpdatePayloads : Update(pk, data)
    \/ \E flag \in DOMAIN flags : NumResolved < MaxResolved /\ ResolveFlag(flag)
    \/ Len(rules) < MaxRules /\ RuleCreate(MatchingRule)

SpecUpdate == Init /\ [][NextUpdate]_vars

(***************************************************************************)
(* SpecMove: up to MoveTxns equal transactions, and updates that move one   *)
(* of them to another date or give it another description.                  *)
(***************************************************************************)
MoveRecords == {Record("X", "c0", "10", "2023-01-01")}

MovePayloads ==
    {Payload(Omit, Omit, Omit, Str("2023-01-02"), Omit),
     Payload(Str("Y"), Omit, Omit, Omit, Omit)}

NextMove ==
    \/ \E data \in MoveRecords : Len(txns) < MoveTxns /\ Create(data)
    \/ \E pk \in DOMAIN txns : \E data \in MovePayloads : Update(pk, data)
    \/ \E data_list \in SeqsUpTo(MoveRecords, MaxBatch) :
          Len(txns) + Len(data_list) <= MoveTxns /\ BulkCreate(data_list)

SpecMove == Init /\ [][NextMove]_vars

(***************************************************************************)
(* SpecResolve: the transactions and custom flags of Spec, and the          *)
(* resolve-flag action addressed to every transaction with every flag.      *)
(***************************************************************************)
NextResolve ==
    \/ \E data \in Records : Len(txns) < MaxTxns /\ Create(data)
    \/ \E pk \in DOMAIN txns : \E data \in Payloads : Update(pk, data)
    \/ \E pk \in DOMAIN txns : \E flag \in DOMAIN flags :
          NumResolved < MaxResolved /\ resolve_flag(pk, flag)

SpecResolve == Init /\ [][NextResolve]_vars

(***************************************************************************)
(* SpecCache: rules created, changed and deleted, the cache read and left   *)
(* to expire, and transactions created with the rules the cache gives.      *)
(***************************************************************************)
CacheRules == {MatchingRule, SecondRule, NoFieldRule}

NextCache ==
    \/ \E rule \in CacheRules : Len(rules) < RuleCount /\ RuleCreate(rule)
    \/ \E i \in DOMAIN rules : \E rule \in CacheRules : RuleUpdate(i, rule)
    \/ \E i \in DOMAIN rules : RuleDelete(i)
    \/ GetCachedRules
    \/ Tick
    \/ \E data \in RuleRecords : Len(txns) < RuleTxns /\ Create(data)

SpecCache == Init /\ [][NextCache]_vars

(***************************************************************************)
(* SpecBulk: uploads of up to BulkTxns records, among them records that     *)
(* clean to nothing, with and without rules.                                *)
(***************************************************************************)
BulkRecords ==
    {Record("", "", "", "2023-01-01"),
     Record(" ", "", "abc", "garbage"),
     Record("X", "", "10", "2023-01-01"),
     Record("", "c0", "", "2023-01-01")}

NextBulk ==
    \/ \E data_list \in SeqsUpTo(BulkRecords, BulkTxns) :
          Len(txns) + Len(data_list) <= BulkTxns /\ BulkCreate(data_list)
    \/ \E rule \in RuleChoices : Len(rules) < MaxRules /\ RuleCreate(rule)

SpecBulk == Init /\ [][NextBulk]_vars

(***************************************************************************)
(* SpecCustom: updates whose custom_flag payload names a flag type and a    *)
(* resolvability of its own, on transactions that carry validation, rule    *)
(* and duplicate flags.                                                     *)
(***************************************************************************)
CustomPayloads ==
    {NoPayload,
     Payload(Omit, Omit, Omit, Omit, CustomFlag("", "note", TRUE)),
     Payload(Omit, Omit, Omit, Omit, CustomFlag("CUSTOM", "note", FALSE)),
     Payload(Omit, Omit, Omit, Omit, CustomFlag("MISSING_DATA", "note", TRUE))}

NextCustom ==
    \/ \E data \in UpdateRecords : Len(txns) < UpdateTxns /\ Create(data)
    \/ \E pk \in DOMAIN txns : \E data \in CustomPayloads : Update(pk, data)
    \/ \E rule \in RuleChoices : Len(rules) < MaxRules /\ RuleCreate(rule)

SpecCustom == Init /\ [][NextCustom]_vars

(***************************************************************************)
(* SpecDetect: duplicate detection on batches of stored transactions that   *)
(* were uploaded or created one at a time, with and without a datetime,     *)
(* some of them changed or with a resolved flag afterwards.                 *)
(***************************************************************************)
DetectRecords ==
    {Record("X", "c0", "10", "2023-01-01"),
     Record("X", "c0", "10", "garbage")}

NextDetect ==
    \/ \E data_list \in SeqsUpTo(DetectRecords, MaxBatch) :
          Len(txns) + Len(data_list) <= GroupTxns /\ BulkCreate(data_list)
    \/ \E data \in DetectRecords : Len(txns) < GroupTxns /\ Create(data)
    \/ \E pk \in DOMAIN txns : Update(pk, Payload(Str("Y"), Omit, Omit, Omit, Omit))
    \/ \E batch \in SUBSET DOMAIN txns : \E p \in BOOLEAN : CheckDuplicates(batch, p)
    \/ \E flag \in DOMAIN flags : NumResolved < MaxResolved /\ ResolveFlag(flag)

SpecDetect == Init /\ [][NextDetect]_vars

(***************************************************************************)
(* SpecApply: rules created after transactions are stored and applied to    *)
(* the stored transactions, one rule or all of them.                        *)
(***************************************************************************)
NextApply ==
    \/ \E data \in RuleRecords : Len(txns) < UpdateTxns /\ Create(data)
    \/ \E pk \in DOMAIN txns : Update(pk, NoPayload)
    \/ \E data_list \in SeqsUpTo(RuleRecords, MaxBatch) :
          Len(txns) + Len(data_list) <= UpdateTxns /\ BulkCreate(data_list)
    \/ \E rule \in {MatchingRule, SecondRule} : Len(rules) < MaxRules + 1 /\ RuleCreate(rule)
    \/ \E i \in DOMAIN rules : ApplyToAll(i)
    \/ ApplyAllRules

SpecApply == Init /\ [][NextApply]_vars

(***************************************************************************)
(* SpecPaging: a rule applied to the stored transactions, in batches and by  *)
(* the apply_to_all action, on records whose amount does not parse.  The    *)
(* store holds at most PagingTxns transactions, so the batches are of up    *)
(* to PageSize rows where the source reads batch_size rows; the rule's      *)
(* filter looks at the description or at the category the rule sets.        *)
(***************************************************************************)
PagingRecords ==
    {Record("X", "", "abc", "2023-01-01"),
     Record("X", "c0", "abc", "2023-01-01")}

EmptyCategoryRule == Rule({Cond("category", "exact", "", 0)}, "c1", "m")

NextPaging ==
    \/ \E data \in PagingRecords : Len(txns) < PagingTxns /\ Create(data)
    \/ \E rule \in {MatchingRule, EmptyCategoryRule} : Len(rules) < MaxRules /\ RuleCreate(rule)
    \/ \E i \in DOMAIN rules : \E size \in 1..PageSize : ApplyRule(i, size)
    \/ \E i \in DOMAIN rules : ApplyToAll(i)

SpecPaging == Init /\ [][NextPaging]_vars

(***************************************************************************)
(* SpecRefetch: uploads of up to RefetchBatch records with amounts and      *)
(* dates that parse or not, some of them dropped as empty, with the created *)
(* rows returned by the store in every order.                               *)
(***************************************************************************)
RefetchRecords ==
    {Record("X", "c0", "abc", "2023-01-01"),
     Record("X", "c0", "10", "2023-01-01"),
     Record("X", "c0", "10", "garbage"),
     Record("", "", "", "2023-01-01")}

NextRefetch ==
    \E data_list \in SeqsUpTo(RefetchRecords, RefetchBatch) :
        \E order \in RefreshOrders(data_list) :
            /\ Len(txns) + Len(ValidIndexes(data_list, [i \in 1..Len(data_list) |-> Now(clock)]))
                   <= RefetchTxns
            /\ BulkCreateRefreshed(data_list, order)

SpecRefetch == Init /\ [][NextRefetch]_vars

(***************************************************************************)
(* SpecUpload: CSV uploads of the records of SpecBulk, with the response    *)
(* the view gives.                                                          *)
(***************************************************************************)
NextUpload ==
    \/ \E data_list \in SeqsUpTo(BulkRecords, BulkTxns) :
          Len(txns) + Len(data_list) <= BulkTxns /\ Upload(data_list)
    \/ \E rule \in RuleChoices : Len(rules) < MaxRules /\ RuleCreate(rule)

SpecUpload == Init /\ [][NextUpload]_vars

(***************************************************************************)
(* SpecRace: rules created while no other call is under way, and a rule     *)
(* delete in one thread interleaved with get_cached_rules in another,       *)
(* while time passes.                                                       *)
(***************************************************************************)
NextRace ==
    \/ \E rule \in CacheRules : Len(rules) < MaxRules + 1 /\ pc = NoThreads /\ RuleCreate(rule)
    \/ \E i \in DOMAIN rules : DeleteSignal(i)
    \/ DeleteRow
    \/ GetTest
    \/ GetFetch
    \/ GetStore
    \/ Tick

SpecRace == Init /\ [][NextRace]_vars

(***************************************************************************)
(* Type correctness of the store.                                           *)
(***************************************************************************)
TypeOK ==
    /\ \A pk \in DOMAIN txns : txns[pk].amount \in {NULL, 1000, 2000}
    /\ \A e \in DOMAIN flags : e.transaction \in DOMAIN txns
    /\ clock >= 0

(***************************************************************************)
(* Properties.                                                              *)
(***************************************************************************)
\* C1: in every reachable state the store holds at most one flag row per
\* (transaction, flag_type, message).  An INSERT of a stored triple would
\* show as a second row here (where the unique constraint raises
\* IntegrityError), so the invariant also says that no call attempts one:
\* the attempt adds no row and raises nothing.
C1_OneFlagPerTriple ==
    \A e \in DOMAIN flags :
        /\ flags[e] = 1
        /\ KeyRows(flags, e.transaction, e.flag_type, e.message) = {e}

\* an update has just re-applied a rule whose RULE_MATCH flag was stored
\* (resolved, so the update had not cleared it): get_or_create met its triple
C1_Witness ==
    /\ result.op = "update"
    /\ result.err = ""
    /\ \E pk \in result.pks : \E i \in DOMAIN rules : \E e \in DOMAIN flags :
          /\ ~FilterRaises(rules[i])
          /\ Matches(rules[i], txns[pk])
          /\ rules[i].flag_message # ""
          /\ e = Flag(pk, NULL, "RULE_MATCH", Text(rules[i].flag_message), TRUE, TRUE)

\* C2: an update of T whose payload repeats T's current data leaves every
\* resolved flag of T and every CUSTOM flag of T stored, with the same
\* flag_type, message, duplicates reference, is_resolvable and is_resolved.
C2_ResolvedAndCustomSurvive ==
    [][\A pk \in DOMAIN txns :
          Update(pk, Echo(txns[pk])) =>
              \A e \in DOMAIN flags :
                  (e.transaction = pk /\ (e.is_resolved \/ e.flag_type = "CUSTOM"))
                      => e \in DOMAIN flags']_vars

\* the unresolved system flags of a flag table, by content
SystemFlags(f) ==
    {[flag_type |-> e.flag_type, message |-> e.message, transaction |-> e.transaction,
      duplicates_transaction |-> e.duplicates_transaction] :
        e \in {x \in DOMAIN f :
                  /\ ~x.is_resolved
                  /\ x.flag_type \in {"PARSE_ERROR", "MISSING_DATA", "RULE_MATCH", "DUPLICATE"}}}

\* C3: an update of T that changes no field value (an empty payload, or
\* T's own values) and returns leaves the set of unresolved PARSE_ERROR,
\* MISSING_DATA, RULE_MATCH and DUPLICATE flags of the store as it was.
C3_NoOpUpdateKeepsSystemFlags ==
    [][\A pk \in DOMAIN txns : \A data \in {NoPayload, Echo(txns[pk])} :
          (Update(pk, data) /\ txns' = txns /\ result'.err = "")
              => SystemFlags(flags') = SystemFlags(flags)]_vars

\* a DUPLICATE flag on a that references b is stored
Flagged(a, b) ==
    \E e \in DOMAIN flags : /\ e.flag_type = "DUPLICATE"
                            /\ e.transaction = a
                            /\ e.duplicates_transaction = b

\* a and b are duplicates by the definition: equal description, amount and
\* datetime, and an amount
SameTriple(a, b) ==
    /\ a # b
    /\ txns[a].amount # NULL
    /\ txns[a].description = txns[b].description
    /\ txns[a].amount = txns[b].amount
    /\ txns[a].datetime = txns[b].datetime

\* C4: after a duplicate-detection pass (check_duplicates_bulk on a batch,
\* or the one inside a create, update or bulk create that returned), for
\* all stored A and B that are duplicates, a DUPLICATE flag on A that
\* references B comes with a DUPLICATE flag on B that references A.
C4_DuplicateSymmetry ==
    (result.op \in {"check", "create", "update", "bulk"} /\ result.err = "")
        => \A a, b \in DOMAIN txns : (SameTriple(a, b) /\ Flagged(a, b)) => Flagged(b, a)

\* C5: in every reachable state an unresolved DUPLICATE flag on A that
\* references B is stored only if A and B are distinct stored transactions
\* with the same description, amount and datetime, and an amount.
C5_FlaggedOnlyIfSameTriple ==
    \A e \in DOMAIN flags :
        (e.flag_type = "DUPLICATE" /\ ~e.is_resolved /\ e.duplicates_transaction # NULL)
            => /\ e.duplicates_transaction \in DOMAIN txns
               /\ SameTriple(e.transaction, e.duplicates_transaction)

\* the DUPLICATE flags a step writes: the rows of the next state whose
\* (transaction, flag_type, message) no row had before the step
NewDuplicateFlags ==
    {e \in DOMAIN flags' :
        /\ e.flag_type = "DUPLICATE"
        /\ KeyRows(flags, e.transaction, e.flag_type, e.message) = {}}

\* the transaction the flag is on, and the one it references if any, have an amount
HasAmounts(e) ==
    /\ txns'[e.transaction].amount # NULL
    /\ e.duplicates_transaction # NULL => txns'[e.duplicates_transaction].amount # NULL

\* C6 as stated: no operation ever creates a DUPLICATE flag owned by, or
\* referencing, a transaction whose amount is absent.
C6_NoDuplicateFlagWithoutAmount ==
    [][\A e \in NewDuplicateFlags : HasAmounts(e)]_vars

\* C6: no operation ever creates a DUPLICATE flag that references a
\* transaction and is owned by, or references, a transaction whose amount
\* is absent; a DUPLICATE flag on such a transaction is one without a
\* reference, written from the custom_flag payload of an update.
C6_NoDetectedDuplicateWithoutAmount ==
    [][\A e \in NewDuplicateFlags :
          \/ HasAmounts(e)
          \/ /\ e.duplicates_transaction = NULL
             /\ result'.op = "update"
             /\ e.transaction \in result'.pks]_vars

\* a create or a bulk create has just stored a transaction without an amount
\* whose description and datetime equal those of another stored transaction
\* without an amount
C6_Witness ==
    /\ result.op \in {"create", "bulk"}
    /\ result.err = ""
    /\ \E a \in result.pks : \E b \in DOMAIN txns :
          /\ a # b
          /\ txns[a].amount = NULL
          /\ txns[b].amount = NULL
          /\ txns[a].description = txns[b].description
          /\ txns[a].datetime = txns[b].datetime

\* the stored rules that carry a category and whose filter keeps the row
CategoryRules(row) ==
    {i \in DOMAIN rules : /\ rules[i].category # ""
                          /\ ~FilterRaises(rules[i])
                          /\ Matches(rules[i], row)}

\* the category rule application leaves on a record by the precedence rule:
\* its own when it has one, else that of the first matching rule when
\* several rules that carry a category match
PrecedenceHolds(row, category) ==
    /\ row.category # "" => category = row.category
    /\ (row.category = "" /\ Cardinality(CategoryRules(row)) >= 2)
           => category = rules[Min(CategoryRules(row))].category

\* C7: the rules applied in a create or an update never change a category
\* that is not empty, and give a record with an empty category, when
\* several matching rules carry one, the category of the first of them in
\* rule order.
C7_CategoryPrecedence ==
    [][/\ \A data \in RuleRecords :
             Create(data) =>
                 (txns' # txns =>
                     PrecedenceHolds(clean_transaction_data(data, Now(clock + 1)),
                                     txns'[Len(txns')].category))
       /\ \A pk \in DOMAIN txns :
             Update(pk, NoPayload) => PrecedenceHolds(txns[pk], txns'[pk].category)]_vars

\* the stored transactions that share the triple of a
Sharing(a) == {b \in DOMAIN txns : SameTriple(a, b)}

\* the DUPLICATE flags on a: the stored ones, and the ones the flag map of
\* the last call lists
StoredDuplicates(a) ==
    {e \in DOMAIN flags : e.transaction = a /\ e.flag_type = "DUPLICATE"}

ReturnedDuplicates(a) ==
    {result.ret[i] : i \in {j \in DOMAIN result.ret :
                               /\ result.ret[j].transaction = a
                               /\ result.ret[j].flag_type = "DUPLICATE"}}

\* one unresolved flag on a for each transaction of S, referencing it
OneFlagEach(a, S) == {Flag(a, b, "DUPLICATE", DupMsg(b), TRUE, FALSE) : b \in S}

\* a is one of k >= 2 records of the last bulk create that share a triple
\* which no transaction stored before shares
InNewGroup(a) ==
    /\ a \in result.pks
    /\ Sharing(a) # {}
    /\ Sharing(a) \subseteq result.pks

\* C8: after a bulk create that returned and in which k >= 2 records share
\* a triple that no other stored transaction shares, each of the k
\* transactions owns exactly one DUPLICATE flag for each of the other k-1
\* (k*(k-1) in all), stored and listed in the flag map, and a record of the
\* call whose triple is unique owns none.
C8_BulkGroupFlags ==
    (result.op = "bulk" /\ result.err = "" /\ \E a \in result.pks : InNewGroup(a))
        => \A a \in result.pks :
              /\ InNewGroup(a) =>
                    /\ StoredDuplicates(a) = OneFlagEach(a, Sharing(a))
                    /\ ReturnedDuplicates(a) = OneFlagEach(a, Sharing(a))
                    /\ \A e \in StoredDuplicates(a) : flags[e] = 1
              /\ Sharing(a) = {} =>
                    /\ StoredDuplicates(a) = {}
                    /\ ReturnedDuplicates(a) = {}

\* the record has no amount that parses and no description and no category
\* once stripped
NothingToStore(data) ==
    /\ ~IsDecimal(data.amount.s)
    /\ Strip(data.description.s) = ""
    /\ Strip(data.category.s) = ""

\* C9: a create of a record whose cleaned amount is absent and whose
\* description and category are empty raises the validation failure and
\* leaves the store as it was: no transaction and no flag is created.
C9_EmptyRecordRejected ==
    [][\A data \in ParseRecords :
          (Create(data) /\ NothingToStore(data))
              => /\ result'.err = "ValueError"
                 /\ txns' = txns
                 /\ flags' = flags]_vars

\* a create was rejected while the store held a transaction and its flags
C9_Witness ==
    /\ result.op = "create"
    /\ result.err = "ValueError"
    /\ txns # <<>>
    /\ flags # EmptyBag

\* the amount of the record is not blank and does not parse
MalformedAmount(data) == Strip(data.amount.s) # "" /\ ~IsDecimal(data.amount.s)

\* the PARSE_ERROR flags of the next state on pk that are about its amount
AmountParseErrors(pk) ==
    {e \in DOMAIN flags' :
        /\ e.transaction = pk
        /\ e.flag_type = "PARSE_ERROR"
        /\ e.message.k \in {"Could not parse amount", "Missing or invalid amount value"}}

\* C10: a create with an amount that is not blank and does not parse, and
\* a description, returns, persists the transaction without an amount and
\* stores for the amount exactly one PARSE_ERROR flag, which quotes the raw
\* input and is not resolvable.
C10_MalformedAmountFlagged ==
    [][\A data \in ParseRecords :
          (Create(data) /\ MalformedAmount(data) /\ Strip(data.description.s) # "")
              => /\ result'.err = ""
                 /\ Len(txns') = Len(txns) + 1
                 /\ txns'[Len(txns')].amount = NULL
                 /\ AmountParseErrors(Len(txns')) =
                        {Flag(Len(txns'), NULL, "PARSE_ERROR", AmountParseMsg(data.amount.s),
                              FALSE, FALSE)}]_vars

\* C11: a create, an update or a bulk create never raises because of a
\* stored rule: with a rule in the rule set whose filter names no field of
\* a transaction (or no known lookup), the call does not end in the
\* ValidationError of rule application.
C11_RulesNeverRaise ==
    (result.op \in {"create", "update", "bulk"} /\ \E i \in DOMAIN rules : FilterRaises(rules[i]))
        => result.err # "ValidationError"

\* the MISSING_DATA "Missing category" flags stored on pk
MissingCategoryFlags(pk) ==
    {e \in DOMAIN flags : /\ e.transaction = pk
                          /\ e.flag_type = "MISSING_DATA"
                          /\ e.message = MissingCategoryMsg}

\* C12: after a create, an update or a bulk create, a transaction of the
\* call that has a category (so also one whose empty category a matching
\* rule filled during the call) has no MISSING_DATA "Missing category" flag
\* in the store.
C12_RuleCategorySuppressesFlag ==
    result.op \in {"create", "update", "bulk"}
        => \A pk \in result.pks : txns[pk].category # "" => MissingCategoryFlags(pk) = {}

\* a bulk create has returned for a record that came without a category
\* and was given the category of a stored rule that matches it
C12_Witness ==
    /\ result.op = "bulk"
    /\ result.err = ""
    /\ \E pk \in result.pks : \E i \in DOMAIN rules :
          /\ rules[i].category # ""
          /\ txns[pk].category = rules[i].category
          /\ Matches(rules[i], txns[pk])

\* the unresolved PARSE_ERROR, MISSING_DATA and RULE_MATCH flags stored on pk
UnresolvedDerived(pk) ==
    {e \in DOMAIN flags : /\ e.transaction = pk
                          /\ ~e.is_resolved
                          /\ e.flag_type \in {"PARSE_ERROR", "MISSING_DATA", "RULE_MATCH"}}

\* the stored rules with a flag message whose filter keeps the row
FlagRules(row) ==
    {i \in DOMAIN rules : /\ rules[i].flag_message # ""
                          /\ ~FilterRaises(rules[i])
                          /\ Matches(rules[i], row)}

\* the flag e is one the stored record of its transaction and the stored
\* rules give rise to
Rederived(e) ==
    CASE e.flag_type = "MISSING_DATA" ->
             \/ e.message = MissingDescriptionMsg /\ txns[e.transaction].description = ""
             \/ e.message = MissingCategoryMsg /\ txns[e.transaction].category = ""
      [] e.flag_type = "PARSE_ERROR" ->
             /\ txns[e.transaction].amount = NULL
             /\ e.message.k \in {"Could not parse amount", "Missing or invalid amount value"}
      [] e.flag_type = "RULE_MATCH" ->
             \E i \in FlagRules(txns[e.transaction]) : e.message = Text(rules[i].flag_message)
      [] OTHER -> FALSE

\* every flag the stored record of pk and the stored rules give rise to is
\* stored on pk (resolved or not)
AllDerivedStored(pk) ==
    /\ txns[pk].description = "" => KeyRows(flags, pk, "MISSING_DATA", MissingDescriptionMsg) # {}
    /\ txns[pk].category = "" => KeyRows(flags, pk, "MISSING_DATA", MissingCategoryMsg) # {}
    /\ txns[pk].amount = NULL =>
           Cardinality({e \in DOMAIN flags : e.transaction = pk /\ e.flag_type = "PARSE_ERROR"}) = 1
    /\ \A i \in FlagRules(txns[pk]) :
           KeyRows(flags, pk, "RULE_MATCH", Text(rules[i].flag_message)) # {}

EqualIn(t, a, b) ==
    /\ a # b
    /\ t[a].amount # NULL
    /\ t[a].description = t[b].description
    /\ t[a].amount = t[b].amount
    /\ t[a].datetime = t[b].datetime

\* the unresolved DUPLICATE flags of the flag table f on a that reference b
UnresolvedBetween(f, a, b) ==
    {e \in DOMAIN f : /\ e.flag_type = "DUPLICATE"
                      /\ ~e.is_resolved
                      /\ e.transaction = a
                      /\ e.duplicates_transaction = b}

\* C14: when A and B are flagged as duplicates of each other with
\* unresolved flags and an update of A that returns leaves A no longer
\* equal to B, then after it no unresolved DUPLICATE flag on A references B
\* and none on B references A, and the unresolved DUPLICATE flags between B
\* and a third transaction that equals B are still stored.
C14_StaleDuplicateFlagsRemoved ==
    [][\A a \in DOMAIN txns : \A data \in MovePayloads :
          (Update(a, data) /\ result'.err = "")
              => \A b \in DOMAIN txns :
                    (/\ EqualIn(txns, a, b)
                     /\ UnresolvedBetween(flags, a, b) # {}
                     /\ UnresolvedBetween(flags, b, a) # {}
                     /\ ~EqualIn(txns', a, b))
                        => /\ UnresolvedBetween(flags', a, b) = {}
                           /\ UnresolvedBetween(flags', b, a) = {}
                           /\ \A c \in DOMAIN txns \ {a, b} :
                                 EqualIn(txns', b, c)
                                     => /\ UnresolvedBetween(flags, b, c)
                                               \subseteq UnresolvedBetween(flags', b, c)
                                        /\ UnresolvedBetween(flags, c, b)
                                               \subseteq UnresolvedBetween(flags', c, b)]_vars

\* the flag_type process_custom_flag writes for a custom_flag payload
CustomType(custom_flag) ==
    IF custom_flag.flag_type = "" THEN "CUSTOM" ELSE custom_flag.flag_type

\* the rows of the flag table f that hold the natural key of the custom
\* flag of transaction pk, counted with their multiplicity
CustomRows(f, pk, custom_flag) ==
    CountRows(f, KeyRows(f, pk, CustomType(custom_flag), Text(custom_flag.message)))

\* C15: an update of T whose payload carries a custom_flag with a message
\* leaves exactly one stored flag with (T, flag_type or CUSTOM, message),
\* resolvable as the payload says when the update created it, and every
\* CUSTOM flag T had is still stored.
C15_CustomFlagUpserted ==
    [][\A pk \in DOMAIN txns : \A data \in Payloads :
          (Update(pk, data) /\ data.custom_flag.k = "dict" /\ data.custom_flag.message # "")
              => /\ CustomRows(flags', pk, data.custom_flag) = 1
                 /\ \A e \in KeyRows(flags', pk, CustomType(data.custom_flag),
                                     Text(data.custom_flag.message)) :
                        e \notin DOMAIN flags => e.is_resolvable = data.custom_flag.is_resolvable
                 /\ \A e \in DOMAIN flags :
                        (e.transaction = pk /\ e.flag_type = "CUSTOM") => e \in DOMAIN flags']_vars

\* C16: an update of T whose payload has no field (nothing, or only a
\* custom_flag) or repeats the values T has leaves T's description, amount,
\* category and datetime as stored, whatever rules the store holds.
C16_OmittedFieldsCarryForward ==
    [][\A pk \in DOMAIN txns : \A data \in Payloads \cup {Echo(txns[pk])} :
          Update(pk, data) => txns'[pk] = txns[pk]]_vars

\* C17: the resolve-flag action on a flag of the addressed transaction
\* that is not resolvable answers with an error and leaves the flag table
\* as it was (the flag stored, is_resolved unchanged); addressed to a
\* transaction the flag does not belong to, it answers not found and
\* changes nothing.
C17_ResolveRejected ==
    [][\A pk \in DOMAIN txns : \A flag \in DOMAIN flags :
          resolve_flag(pk, flag)
              => /\ (flag.transaction = pk /\ ~flag.is_resolvable)
                        => (result'.err = "400" /\ flags' = flags /\ txns' = txns)
                 /\ flag.transaction # pk
                        => (result'.err = "404" /\ flags' = flags /\ txns' = txns)]_vars

\* the resolve-flag action has just been rejected for a non-resolvable flag
\* of the addressed transaction, which is stored unresolved
C17_Witness ==
    /\ result.op = "resolve"
    /\ result.err = "400"
    /\ \E e \in DOMAIN flags : e.transaction \in result.pks /\ ~e.is_resolvable /\ ~e.is_resolved

DateParseErrors(pk, s) ==
    KeyRows(flags', pk, "PARSE_ERROR", DateParseMsg(s))

C20_CacheFollowsRules ==
    [][/\ (rules' # rules \/ result'.op = "rule") => get_cached_rules' = rules'
       /\ get_cached_rules = rules
       /\ (result'.op = "rules" /\ cache.loaded /\ cache.age <= max_age_seconds)
             => result'.ret = cache.rules /\ cache' = cache]_vars

\* C20 witness: a transaction carries the category MatchingRule gave it, so
\* the cache was loaded with that rule; the rule has since been changed or
\* deleted, and a get_cached_rules call has returned the stored list.
C20_Witness ==
    /\ result.op = "rules"
    /\ result.ret = rules
    /\ cache.loaded
    /\ \E pk \in DOMAIN txns : txns[pk].category = "c1"
    /\ \A i \in DOMAIN rules : rules[i].category # "c1"

\* the records of data_list that have something to store, in input order
Acceptable(data_list) == SelectSeq(data_list, LAMBDA data : ~NothingToStore(data))

\* C21: a bulk create returns, and persists and returns exactly one
\* transaction for each record of the input that has an amount that parses,
\* a description or a category, in input order, and none for the others.
C21_BulkPersistsAcceptable ==
    [][\A data_list \in SeqsUpTo(BulkRecords, BulkTxns) :
          BulkCreate(data_list)
              => /\ result'.err = ""
                 /\ Len(txns') = Len(txns) + Len(Acceptable(data_list))
                 /\ SubSeq(txns', 1, Len(txns)) = txns
                 /\ result'.pks = (Len(txns) + 1)..Len(txns')
                 /\ \A i \in 1..Len(Acceptable(data_list)) :
                       /\ txns'[Len(txns) + i].description =
                              Strip(Acceptable(data_list)[i].description.s)
                       /\ txns'[Len(txns) + i].amount =
                              DecimalOf(Acceptable(data_list)[i].amount.s)]_vars

\* C22: a bulk create that raises leaves the store as it was before the
\* call: no transaction and no flag of the call remains.
C22_BulkAbortsWhole ==
    [][(result'.op = "bulk" /\ result'.err # "")
          => /\ txns' = txns
             /\ flags' = flags]_vars

\* is_resolvable of the flag row e is the one its flag_type fixes
FixedByType(e) ==
    /\ e.flag_type \in {"PARSE_ERROR", "MISSING_DATA"} => ~e.is_resolvable
    /\ e.flag_type \in {"RULE_MATCH", "DUPLICATE", "CUSTOM"} => e.is_resolvable

PayloadMessages == {Text(data.custom_flag.message) :
                       data \in {p \in CustomPayloads : p.custom_flag.k = "dict"}}

C24_RuleMatchFlagPerRule ==
    result.op \in {"create", "update", "bulk"}
        => \A pk \in result.pks :
              \A i \in FlagRules(txns[pk]) :
                  CountRows(flags, KeyRows(flags, pk, "RULE_MATCH",
                                           Text(rules[i].flag_message))) = 1

\* C25: after check_duplicates_bulk on a batch (the call itself, or the pass
\* of a bulk create that returned), every transaction A of the batch that
\* has an amount owns a DUPLICATE flag referencing every other stored
\* transaction with A's description, amount and datetime, inside or outside
\* the batch, and the returned map lists under A the flags for exactly
\* those transactions.
C25_BatchDetectionComplete ==
    (result.op \in {"check", "bulk"} /\ result.err = "")
        => \A a \in result.pks :
              txns[a].amount # NULL
                  => /\ \A b \in Sharing(a) : Flagged(a, b)
                     /\ {e.duplicates_transaction : e \in ReturnedDuplicates(a)} = Sharing(a)

\* the pair of the returned flag r has a resolved DUPLICATE flag in f
ResolvedIn(f, r) ==
    \E e \in DOMAIN f : /\ e.transaction = r.transaction
                        /\ e.flag_type = "DUPLICATE"
                        /\ e.duplicates_transaction = r.duplicates_transaction
                        /\ e.is_resolved

\* C26: check_duplicates_bulk with preserve_resolution = true removes no
\* flag row and changes none (is_resolved of every stored flag stays as it
\* was), reports a pair as resolved exactly when its flag was resolved
\* before the call, and writes nothing but unresolved DUPLICATE flags.
C26_PreserveKeepsResolution ==
    [][\A batch \in SUBSET DOMAIN txns :
          CheckDuplicates(batch, TRUE)
              => /\ \A e \in DOMAIN flags : e \in DOMAIN flags' /\ flags'[e] >= flags[e]
                 /\ \A i \in DOMAIN result'.ret :
                       result'.ret[i].is_resolved = ResolvedIn(flags, result'.ret[i])
                 /\ \A i \in DOMAIN result'.ret :
                       ResolvedIn(flags, result'.ret[i]) => ResolvedIn(flags', result'.ret[i])
                 /\ \A e \in DOMAIN flags' :
                       flags'[e] > (IF e \in DOMAIN flags THEN flags[e] ELSE 0)
                           => e.flag_type = "DUPLICATE" /\ ~e.is_resolved]_vars

\* C26 witness: a detection pass has reported one pair as resolved, whose
\* flag is stored resolved, and another pair as unresolved, whose flag is
\* stored unresolved.
C26_Witness ==
    /\ result.op = "check"
    /\ \E i \in DOMAIN result.ret :
          /\ result.ret[i].is_resolved
          /\ ResolvedIn(flags, result.ret[i])
    /\ \E i \in DOMAIN result.ret :
          /\ ~result.ret[i].is_resolved
          /\ \E e \in DOMAIN flags :
                /\ e.transaction = result.ret[i].transaction
                /\ e.duplicates_transaction = result.ret[i].duplicates_transaction
                /\ e.flag_type = "DUPLICATE"
                /\ ~e.is_resolved

\* C27: after check_duplicates_bulk with preserve_resolution = false on a
\* batch, every DUPLICATE flag a transaction of the batch owns is unresolved
\* and references a stored transaction with the same description, amount
\* and datetime, also when no transaction of the batch has a duplicate any
\* more.
C27_NoPreserveLeavesOnlyCurrent ==
    [][\A batch \in SUBSET DOMAIN txns :
          CheckDuplicates(batch, FALSE)
              => \A e \in DOMAIN flags' :
                    (e.transaction \in batch /\ e.flag_type = "DUPLICATE")
                        => /\ ~e.is_resolved
                           /\ e.duplicates_transaction \in DOMAIN txns
                           /\ EqualIn(txns, e.transaction, e.duplicates_transaction)]_vars

\* C28: a get_cached_rules call returns the cached list and leaves the cache
\* and its timestamp alone when a list is cached and its age is strictly
\* less than max_age_seconds; in every other case, the age equal to
\* max_age_seconds among them, it returns the stored rules, caches them and
\* sets the timestamp to the current time.
C28_ReloadUnlessYoungerThanTTL ==
    [][result'.op = "rules"
          => IF cache.loaded /\ cache.age < max_age_seconds
             THEN /\ result'.ret = cache.rules
                  /\ cache' = cache
             ELSE /\ result'.ret = rules
                  /\ cache' = [loaded |-> TRUE, rules |-> rules, age |-> 0]]_vars

\* the unresolved MISSING_DATA "Missing category" flags stored on pk
UnresolvedMissingCategory(pk) ==
    {e \in DOMAIN flags : /\ e.transaction = pk
                          /\ e.flag_type = "MISSING_DATA"
                          /\ e.message = MissingCategoryMsg
                          /\ ~e.is_resolved}

\* C29: in every state reached by creates, updates, bulk creates,
\* apply_to_all and apply_all_rules, a stored transaction has an unresolved
\* MISSING_DATA "Missing category" flag if and only if its category is
\* empty.
C29_MissingCategoryFlagIffEmpty ==
    \A pk \in DOMAIN txns :
        (UnresolvedMissingCategory(pk) # {}) <=> (txns[pk].category = "")

\* C30: a create or an update of a record that passes the empty-record
\* check returns, whatever DUPLICATE flags the stored transactions that
\* equal it already own.
C30_SaveNeverRaisesOnDuplicates ==
    [][(result'.op \in {"create", "update"} /\ result'.err # "ValueError")
          => result'.err = ""]_vars

\* C31: a create or an update of one record that raises leaves the store as
\* it was before the call: no transaction and no flag of a failed create
\* remains, and after a failed update the transaction's fields and the
\* flags are what they were.
C31_SingleRecordAtomic ==
    [][(result'.op \in {"create", "update"} /\ result'.err # "")
          => (txns' = txns /\ flags' = flags)]_vars

\* a flag row that an update of transaction a may touch: a flag owned by a,
\* or a DUPLICATE flag whose duplicates reference is a
OfUpdated(e, a) ==
    e.transaction = a \/ (e.flag_type = "DUPLICATE" /\ e.duplicates_transaction = a)

\* C32: an update of transaction A creates, deletes and modifies only flags
\* owned by A and DUPLICATE flags that reference A; every other flag row (a
\* DUPLICATE flag on B that references a third transaction C among them) is
\* stored after the update exactly as before it.
C32_UpdateTouchesOwnFlagsOnly ==
    [][result'.op = "update"
          => \A a \in result'.pks :
                \A e \in (DOMAIN flags) \cup (DOMAIN flags') :
                    ~OfUpdated(e, a) => CopiesIn(e, flags') = CopiesIn(e, flags)]_vars

\* the actions of a rule have been applied to the transaction pk: it has a
\* category where the rule gives one, and the rule's RULE_MATCH flag where
\* the rule has a message
RuleApplied(rule, t, f, pk) ==
    /\ rule.category # "" => t[pk].category # ""
    /\ rule.flag_message # "" => KeyRows(f, pk, "RULE_MATCH", Text(rule.flag_message)) # {}

\* C33: apply_transaction_rule applies the rule's actions to every
\* transaction that matches the rule's filter when the call starts,
\* whatever the number of matches relative to the batch size, also when
\* setting the category takes transactions out of the matching set while
\* the batches are paged.
C33_EveryMatchProcessed ==
    [][\A i \in DOMAIN rules : \A size \in 1..PageSize :
          (ApplyRule(i, size) /\ result'.err = "")
              => \A pk \in DOMAIN txns :
                    Matches(rules[i], txns[pk]) => RuleApplied(rules[i], txns', flags', pk)]_vars

\* C34: the apply_to_all action of a rule leaves the PARSE_ERROR flags of
\* every transaction the rule matched exactly as they were before the
\* action.
C34_ApplyToAllKeepsParseErrors ==
    [][\A i \in DOMAIN rules :
          ApplyToAll(i)
              => \A e \in (DOMAIN flags) \cup (DOMAIN flags') :
                    (e.flag_type = "PARSE_ERROR" /\ Matches(rules[i], txns[e.transaction]))
                        => CopiesIn(e, flags') = CopiesIn(e, flags)]_vars

\* the PARSE_ERROR flag dictionaries that parsing the raw record gives
ParseErrorsOf(data) ==
    parse_amount(AmountArg(Get(data.amount))).flag
    \cup parse_datetime(DateArg(Get(data.datetime)), Now(clock)).flag

\* the PARSE_ERROR flags stored for a transaction, as flag dictionaries
StoredParseErrors(f, pk) ==
    {FlagDict(e.flag_type, e.message) :
        e \in {x \in DOMAIN f : x.transaction = pk /\ x.flag_type = "PARSE_ERROR"}}

\* C35: after a bulk creation the PARSE_ERROR flags stored for each created
\* transaction are those of the raw input record that produced it, in
\* whatever order the store returns the re-fetched transactions and
\* whichever input records were dropped.
C35_ParseErrorsFromOwnRecord ==
    [][\A data_list \in SeqsUpTo(RefetchRecords, RefetchBatch) :
          \A order \in RefreshOrders(data_list) :
              (BulkCreateRefreshed(data_list, order) /\ result'.err = "")
                  => \A k \in 1..Len(Acceptable(data_list)) :
                        StoredParseErrors(flags', Len(txns) + k)
                            = ParseErrorsOf(Acceptable(data_list)[k])]_vars

\* the records of data_list created one at a time with
\* create_transaction_with_flags, each on the store the one before left
\* (a record that is rejected leaves the store as it was)
RECURSIVE create_one_at_a_time(_, _, _, _)
create_one_at_a_time(out, rs, data_list, nows) ==
    IF data_list = <<>> THEN out
    ELSE create_one_at_a_time(
             create_transaction_with_flags(out.t, out.f, rs, Head(data_list), Head(nows)),
             rs, Tail(data_list), Tail(nows))

\* what the single-record path leaves of the records of an upload
OneAtATime(data_list) ==
    create_one_at_a_time(Outcome(txns, flags, "", <<>>), get_cached_rules, data_list,
                         [i \in 1..Len(data_list) |-> Now(clock + Readings(data_list, i))])

\* C36: from the same store and rule set, creating a list of records in one
\* bulk call leaves the same transactions and the same stored flags as
\* creating them one at a time with create_transaction_with_flags.
C36_BulkEqualsOneAtATime ==
    [][\A data_list \in SeqsUpTo(GroupRecords, GroupTxns) :
          (BulkCreate(data_list) /\ result'.err = "" /\ OneAtATime(data_list).err = "")
              => (txns' = OneAtATime(data_list).t /\ flags' = OneAtATime(data_list).f)]_vars

\* the number of resolved flag rows the transaction pk owns
ResolvedRows(f, pk) ==
    CountRows(f, {e \in DOMAIN f : e.transaction = pk /\ e.is_resolved})

\* C37: in every reachable state a resolved flag is resolvable, and no
\* call of the API turns a resolved flag back to unresolved: none of them
\* deletes a resolved flag, so the resolved flags a transaction owns never
\* become fewer.
C37_ResolvedStaysResolved ==
    /\ [](\A e \in DOMAIN flags : e.is_resolved => e.is_resolvable)
    /\ [][\A pk \in DOMAIN txns : ResolvedRows(flags', pk) >= ResolvedRows(flags, pk)]_vars

\* a resolved DUPLICATE flag was found and written again by the save of an
\* update, and is resolved afterwards
C37_Witness ==
    /\ result.op = "update"
    /\ result.err = ""
    /\ \E e \in DOMAIN flags :
          /\ e.is_resolved
          /\ e.flag_type = "DUPLICATE"
          /\ (e.transaction \in result.pks \/ e.duplicates_transaction \in result.pks)

\* C38: for every upload that reaches bulk processing and is answered with
\* counts, created_count + skipped_count is the number of data rows, and the
\* status is 201 when rows were created and none was dropped, 207 when some
\* were created and some dropped, 400 when none was created.
C38_UploadCountsAddUp ==
    [][\A data_list \in SeqsUpTo(BulkRecords, BulkTxns) :
          (Upload(data_list) /\ result'.err = "")
              => /\ result'.ret[1].created_count + result'.ret[1].skipped_count
                        = Len(data_list)
                 /\ result'.ret[1].status
                        = status_code(Len(txns') - Len(txns),
                                      Len(data_list) - (Len(txns') - Len(txns)))]_vars

\* C39: under every interleaving of a rule delete in one thread with
\* get_cached_rules calls in another, once the delete has completed the
\* cache does not hold the deleted rule: when no call is under way, a cache
\* within its TTL holds the stored rules, and a call that returns then
\* returns the stored rules.
C39_NoDeletedRuleAfterDelete ==
    (pc = NoThreads /\ cache.loaded /\ cache.age <= max_age_seconds)
        => (cache.rules = rules /\ (result.op = "rules" => result.ret = rules))

====
